---- MODULE Spec2Model ----
(***************************************************************************)
(* Model of the local SOCKS5-to-Shadowsocks TCP relay:                     *)
(* TcpRelayLocal::handle_client (src/src/relay/tcprelay/local.rs) with    *)
(* its two relay threads, the stream wrappers it uses                      *)
(* (src/src/relay/tcprelay/stream.rs) and the cipher sizes                 *)
(* (src/src/crypto/cipher.rs).                                             *)
(*                                                                         *)
(* One session is modelled: the worker thread running handle_client        *)
(* ("main", position pc) and the local-to-remote thread it spawns          *)
(* (position l2r_pc).  C is the accepted local stream, S the stream to     *)
(* the remote server.  A TcpStream value is a handle on a shared socket:   *)
(* clone() adds a handle and the socket is closed when the last handle is  *)
(* dropped.  Every read, write and name lookup may fail, as the peer or    *)
(* the network decides.                                                    *)
(***************************************************************************)
EXTENDS Integers, Sequences, FiniteSets, TLC

\* Bound: payload chunks copied per direction.
MaxChunks == 2

\* Bound: write and finalize calls made on one EncryptedWriter before it is
\* dropped.
MaxWriterCalls == 3

\* Bound: connections the accept loop accepts.
MaxAccepts == 4

\* Server lists of the configuration: one to three servers, the third under
\* the hostname of the first.
ServerLists ==
    LET s1 == [addr |-> "h1", port |-> 8388, method |-> "Aes256Cfb", password |-> "pw1"]
        s2 == [addr |-> "h2", port |-> 8388, method |-> "Table", password |-> "pw2"]
        s3 == [addr |-> "h1", port |-> 8389, method |-> "BfCfb", password |-> "pw3"]
    IN {<<s1>>, <<s1, s2>>, <<s1, s2, s3>>}

\* What get_host_addresses can return: an error, or a list of addresses that
\* may be empty.
LookupResults ==
    {[ok |-> FALSE, addrs |-> <<>>],
     [ok |-> TRUE, addrs |-> <<>>],
     [ok |-> TRUE, addrs |-> <<"ipA">>],
     [ok |-> TRUE, addrs |-> <<"ipB", "ipA">>]}

\* What get_host_addresses returns when the UDP relay starts: an error, no
\* address, or the one address of the host.
StartupAnswers == {a \in LookupResults : Len(a.addrs) <= 1}

\* How a thread running handle_client can end: normally, or on one of the
\* errors of a session.
WorkerOutcomes ==
    {"done", "handshake_failed", "bad_request", "dial_failed", "io_error",
     "timeout", "cipher_error", "reply_write_failed", "finalize_failed"}

\* No socket address.
NoEndpoint == <<>>

\* No thread was spawned for a datagram, or the thread is over and its
\* message freed.
NoWorker ==
    [kind |-> "none", pc |-> "none", server |-> 0, saddr |-> NoEndpoint,
     bound |-> NoEndpoint, within |-> FALSE, from |-> NoEndpoint,
     content |-> <<>>]

\* No thread of the UDP relay has ended.
NoEnd == [how |-> "none", by |-> NoWorker, cause |-> 0, sent |-> <<>>]

\* The mutex of client_map, unlocked.
NoLock == [holder |-> 0, ops |-> 0]

\* No accept has happened.
NoAccept == [start |-> 0, tried |-> <<>>, spawned |-> 0]

\* Bound: datagrams the UDP relay receives.
MaxDatagrams == 3

\* Bound: handler threads of the UDP relay alive at the same time.
MaxThreads == 2

\* Bound: capacity of the LRU client map, scaled down.
UDP_RELAY_LOCAL_LRU_CACHE_CAPACITY == 2

\* Socket addresses of the local applications that send UDP requests.
UdpClients == {<<"ipC1", 5000>>, <<"ipC2", 5001>>}

\* Destinations named in UDP requests and responses.
UdpDestinations == {"dst1", "dst2", "dst3"}

\* Payload chunks the peers may send.
Data == {"d1", "d2"}

\* Destination addresses a client may request.
Addresses == {"dst1", "dst2"}

\* stream.socket_name(): the address the accepted stream is bound to.
SockName == "local_bound"

\* stream.peer_name(): the client's address.
PeerName == "client_peer"

SOCKS5_AUTH_METHOD_NONE == 0

SOCKS5_AUTH_METHOD_NOT_ACCEPTABLE == 255

\* Authentication methods a client may offer (0 none, 1 GSSAPI, 2 password).
AuthMethods == {0, 1, 2}

Commands == {"TcpConnect", "TcpBind", "UdpAssociate"}

\* Replies carried by the error of TcpRequestHeader::read_from.
HeaderErrorReplies == {"GeneralFailure", "CommandNotSupported", "AddressTypeNotSupported"}

\* Error kinds of TcpStream::connect.
ConnectErrorKinds == {"ConnectionAborted", "ConnectionReset", "ConnectionRefused",
                      "ConnectionFailed", "TimedOut", "OtherIoError"}

CipherTypes == {"Table", "BfCfb", "Aes256Cfb"}

\* The methods the cipher functions are studied with.
RecognizedCipherTypes ==
    CipherTypes \cup {"Aes128Cfb", "Aes192Cfb", "DesCfb", "Rc4", "Rc4Md5"}

block_size(t) ==
    CASE t = "Table" -> 0
      [] t = "BfCfb" -> 8
      [] t = "Aes256Cfb" -> 16
      [] t = "Aes128Cfb" -> 16
      [] t = "Aes192Cfb" -> 16
      [] t = "DesCfb" -> 8
      [] t = "Rc4" -> 0
      [] t = "Rc4Md5" -> 16

key_size(t) ==
    CASE t = "Table" -> 0
      [] t = "BfCfb" -> 16
      [] t = "Aes256Cfb" -> 32
      [] t = "Aes128Cfb" -> 16
      [] t = "Aes192Cfb" -> 24
      [] t = "DesCfb" -> 8
      [] t = "Rc4" -> 16
      [] t = "Rc4Md5" -> 16

\* Bound: bytes of a password.
MaxPasswordLen == 2

\* Bound: bytes given to a cipher in one update call.
MaxChunkLen == 2

\* Bound: bytes given to a cipher over its lifetime.
MaxMessageLen == 3

\* The byte values of passwords and payloads.
PlainBytes == {[byte |-> 0], [byte |-> 1]}

\* The byte strings of at most n bytes.
BytesUpTo(n) == UNION {[1..k -> PlainBytes] : k \in 0..n}

\* The outcomes of the random generator behind gen_init_vec.
Seeds == {1, 2}

\* Bound: size of the array a DecryptedReader reads into, scaled down.
BUFFER_SIZE == 2

\* Bound: calls made on one DecryptedReader.
MaxReaderCalls == 4

\* Bound: size of the buffer given to Reader::read of a DecryptedReader.
MaxBufLen == 2

\* req_methods before the HandshakeRequest is read.
Unread == {-1}

NoHeader == [command |-> "none", address |-> "none"]

NoError == [kind |-> "none", reply |-> "none"]

VARIABLES
    feature_enable_udp, \* cfg!(feature = "enable-udp") of the build
    enable_udp,         \* config.enable_udp
    encrypt_method,     \* the CipherType handed to handle_client
    pc,                 \* position of the worker thread in handle_client
    l2r_pc,             \* position of the spawned local-to-remote thread
    req_methods,        \* methods of the HandshakeRequest read, Unread before
    header,             \* the TcpRequestHeader read, NoHeader before
    header_err,         \* the error of TcpRequestHeader::read_from, NoError if none
    local_wire,         \* what was written to the socket of C, in order
    buffered_out,       \* write buffer of buffered_local_stream
    remote_wire,        \* what was written to the socket of S, in order
    enc_input,          \* what was given to the encryptor's update, in order
    encryptor,          \* "none", "live", "finalized", "dropped" (never finalized)
    decryptor,          \* likewise for the decryptor
    dialed,             \* number of TcpStream::connect calls made
    stream_refs,        \* live handles on the socket of C
    remote_refs,        \* live handles on the socket of S
    local_shut,         \* halves of C shut by close_read / close_write
    remote_shut,        \* halves of S shut by close_read / close_write
    l2r_count,          \* chunks read from C by the local-to-remote copy
    r2l_count,          \* chunks read from S by the remote-to-local copy
    l2r_result,         \* "none", "running", "ok", "err": io::util::copy C -> S
    r2l_result,         \* likewise S -> C
    iv_short,           \* read_exact of the remote IV failed
    io_error,           \* an operation on C failed in this session
    connect_err         \* error kind of a failed TcpStream::connect, "none" if none

\* The state of one handle_client session.
session_vars == <<feature_enable_udp, enable_udp, encrypt_method, pc, l2r_pc,
                  req_methods, header, header_err, local_wire, buffered_out,
                  remote_wire, enc_input, encryptor, decryptor, dialed, stream_refs,
                  remote_refs, local_shut, remote_shut, l2r_count, r2l_count,
                  l2r_result, r2l_result, iv_short, io_error, connect_err>>

\* An EncryptedWriter taken alone (stream.rs), for the properties of its
\* whole lifetime.
VARIABLES
    ew_state,           \* "none", "live", "dropped"
    ew_ops,             \* write and finalize calls made on the writer
    ew_out,             \* what reached the underlying writer, in order
    ew_finalized,       \* number of cipher.finalize() calls
    ew_update_after,    \* cipher.update() was called after cipher.finalize()
    ew_panicked         \* the destructor's unwrap() panicked

writer_vars == <<ew_state, ew_ops, ew_out, ew_finalized, ew_update_after, ew_panicked>>

\* TcpRelayLocal::run: the accept loop, its balancer and its resolver cache.
VARIABLES
    servers,            \* config.server, the list given to RoundRobin::new
    rr_index,           \* the balancer's index
    cached_proxy,       \* hostname -> addresses, the resolver cache
    relay_state,        \* "none", "accepting", "aborted", "accept_error",
                        \* "unwrap_failed"
    accepted,           \* connections accepted so far
    last_accept,        \* what the latest accept did: start index and tries
    picks,              \* every pick_server() result so far, in call order
    conns               \* one entry per spawned worker, in spawn order

run_vars == <<servers, rr_index, cached_proxy, relay_state, accepted, last_accept,
              picks, conns>>

\* UdpRelayLocal::run and its per-datagram threads.
VARIABLES
    udp_state,          \* "none", "receiving", "stopped"
    server_set,         \* resolved endpoint -> server (index in servers)
    server_addr,        \* hostname -> resolved endpoint
    udp_rr_index,       \* index of the UDP relay's balancer
    client_map,         \* the LRU cache: entries from least to most recently used
    received,           \* number of datagrams received
    workers,            \* per received datagram, the thread that handles it
                        \* and the message it owns, while it runs
    last_ended,         \* the latest thread that ended, or request dropped for
                        \* want of an endpoint: how, and what was sent
    bindings,           \* per destination, the last source recorded and the
                        \* other destinations inserted since
    mutex,              \* the Mutex around client_map: the thread holding
                        \* it (0: none) and the map operations made under
                        \* this hold; of use where the threads run
                        \* statement by statement
    asked,              \* the FRAG=0 requests received: destination,
                        \* source and number of the datagram (statement by
                        \* statement only)
    inserted            \* the request threads whose insert is done
                        \* (statement by statement only)

\* What the statement-by-statement threads add to the state of the relay.
thread_vars == <<mutex, asked, inserted>>

udp_vars == <<udp_state, server_set, server_addr, udp_rr_index, client_map,
              received, workers, last_ended, bindings, thread_vars>>

\* The cipher functions of crypto/cipher.rs taken alone: a key derived from a
\* password, an IV, and an encryptor and a decryptor built from them, as in
\* test_get_cipher.
VARIABLES
    ct_pc,              \* "none", "start", "keyed", "ready", "finalized"
    ct_method,          \* the CipherType
    ct_password,        \* the password given to bytes_to_key
    ct_key,             \* what bytes_to_key returned
    ct_iv,              \* [enc, dec]: the IV each cipher was built with
    ct_encryptor,       \* with_type(.., CryptoMode::Encrypt)
    ct_decryptor,       \* with_type(.., CryptoMode::Decrypt)
    ct_message,         \* the bytes given to encryptor.update, in order
    ct_encrypted,       \* what encryptor.update returned, in order
    ct_decrypted        \* what decryptor.update and finalize returned, in order

cipher_vars == <<ct_pc, ct_method, ct_password, ct_key, ct_iv, ct_encryptor,
                 ct_decryptor, ct_message, ct_encrypted, ct_decrypted>>

\* An EncryptedWriter and a DecryptedReader (stream.rs) at the two ends of one
\* byte stream.
VARIABLES
    pw_state,           \* the EncryptedWriter: "none", "live", "dropped"
    pw_cipher,          \* its cipher
    pw_plain,           \* the bytes given to its successful writes, in order
    pipe,               \* bytes written to the underlying writer and not yet
                        \* read by the underlying reader
    dr_buffer,          \* DecryptedReader.buffer
    dr_cipher,          \* DecryptedReader.cipher
    dr_pos,             \* DecryptedReader.pos
    dr_sent_final,      \* DecryptedReader.sent_final
    dr_out,             \* the bytes its read calls delivered, in order
    dr_calls,           \* calls made on the reader
    dr_last,            \* the latest call on the writer or the reader and its
                        \* result
    dr_state,           \* the DecryptedReader: "none", "live", "panicked"
    dr_eof,             \* an EndOfFile error was returned to the caller
    dr_irregular        \* a cipher failed, a write to the underlying writer
                        \* failed, or finalize returned a tail that is not
                        \* empty

stream_vars == <<pw_state, pw_cipher, pw_plain, pipe, dr_buffer, dr_cipher, dr_pos,
                 dr_sent_final, dr_out, dr_calls, dr_last, dr_state, dr_eof,
                 dr_irregular>>

vars == <<session_vars, writer_vars, run_vars, udp_vars, cipher_vars, stream_vars>>

\* What a step of a handle_client session leaves alone.
outside_session == <<writer_vars, run_vars, udp_vars, cipher_vars, stream_vars>>

config_vars == <<feature_enable_udp, enable_udp, encrypt_method>>

NoneShut == [read |-> FALSE, write |-> FALSE]

----------------------------------------------------------------------------
(* Messages and ciphers *)

HandshakeResponse(method) == [type |-> "HandshakeResponse", method |-> method]

TcpResponseHeader(reply, address) ==
    [type |-> "TcpResponseHeader", reply |-> reply, address |-> address]

AddressBytes(address) == [type |-> "address", address |-> address]

DataBytes(d) == [type |-> "data", data |-> d]

\* gen_init_vec: block_size() random bytes.
gen_init_vec(t) == [type |-> "iv", len |-> block_size(t)]

\* Cipher::update of an encryptor: the ciphertext of the plaintext given.
encrypt_update(plain) == [type |-> "ciphertext", of |-> plain]

\* Cipher::update of a decryptor built with the peer's IV.
decrypt_update(cipher) == cipher.of

\* Cipher::finalize: the (empty, for stream ciphers) tail.
FinalBytes == [type |-> "final"]

\* A write on a socket can succeed only while a handle is alive and the write
\* half was not shut down; it can fail at any time.
CanWrite(refs, shut) == refs > 0 /\ ~shut.write

\* A read can deliver data only while the read half was not shut down.
CanRead(refs, shut) == refs > 0 /\ ~shut.read

----------------------------------------------------------------------------
\* No EncryptedWriter is under study.
WriterIdle ==
    /\ ew_state = "none"
    /\ ew_ops = 0
    /\ ew_out = <<>>
    /\ ew_finalized = 0
    /\ ew_update_after = FALSE
    /\ ew_panicked = FALSE

\* A handle_client session right after the accept loop spawned it.
SessionInit ==
    /\ feature_enable_udp \in BOOLEAN
    /\ enable_udp \in BOOLEAN
    /\ encrypt_method \in CipherTypes
    /\ pc = "do_handshake"
    /\ l2r_pc = "none"
    /\ req_methods = Unread
    /\ header = NoHeader
    /\ header_err = NoError
    /\ local_wire = <<>>
    /\ buffered_out = <<>>
    /\ remote_wire = <<>>
    /\ enc_input = <<>>
    /\ encryptor = "none"
    /\ decryptor = "none"
    /\ dialed = 0
    /\ stream_refs = 1
    /\ remote_refs = 0
    /\ local_shut = NoneShut
    /\ remote_shut = NoneShut
    /\ l2r_count = 0
    /\ r2l_count = 0
    /\ l2r_result = "none"
    /\ r2l_result = "none"
    /\ iv_short = FALSE
    /\ io_error = FALSE
    /\ connect_err = "none"

\* No handle_client session is running.
SessionIdle ==
    /\ feature_enable_udp = FALSE
    /\ enable_udp = FALSE
    /\ encrypt_method = "Table"
    /\ pc = "none"
    /\ l2r_pc = "none"
    /\ req_methods = Unread
    /\ header = NoHeader
    /\ header_err = NoError
    /\ local_wire = <<>>
    /\ buffered_out = <<>>
    /\ remote_wire = <<>>
    /\ enc_input = <<>>
    /\ encryptor = "none"
    /\ decryptor = "none"
    /\ dialed = 0
    /\ stream_refs = 0
    /\ remote_refs = 0
    /\ local_shut = NoneShut
    /\ remote_shut = NoneShut
    /\ l2r_count = 0
    /\ r2l_count = 0
    /\ l2r_result = "none"
    /\ r2l_result = "none"
    /\ iv_short = FALSE
    /\ io_error = FALSE
    /\ connect_err = "none"

\* No accept loop is running.
RunIdle ==
    /\ servers = <<>>
    /\ rr_index = 0
    /\ cached_proxy = <<>>
    /\ relay_state = "none"
    /\ accepted = 0
    /\ last_accept = NoAccept
    /\ picks = <<>>
    /\ conns = <<>>

\* No UDP relay is running.
UdpIdle ==
    /\ udp_state = "none"
    /\ server_set = <<>>
    /\ server_addr = <<>>
    /\ udp_rr_index = 0
    /\ client_map = <<>>
    /\ received = 0
    /\ workers = <<>>
    /\ last_ended = NoEnd
    /\ bindings = <<>>
    /\ mutex = NoLock
    /\ asked = {}
    /\ inserted = {}

\* No cipher.
NoCipher == [engine |-> "none", finalized |-> 0]

\* No call was made.
NoCall == [call |-> "none", result |-> [kind |-> "none"], reader |-> "none",
           cipher |-> "none"]

\* No cipher function is under study.
CipherIdle ==
    /\ ct_pc = "none"
    /\ ct_method = "Table"
    /\ ct_password = <<>>
    /\ ct_key = <<>>
    /\ ct_iv = <<>>
    /\ ct_encryptor = NoCipher
    /\ ct_decryptor = NoCipher
    /\ ct_message = <<>>
    /\ ct_encrypted = <<>>
    /\ ct_decrypted = <<>>

\* No stream pair is under study.
StreamIdle ==
    /\ pw_state = "none"
    /\ pw_cipher = NoCipher
    /\ pw_plain = <<>>
    /\ pipe = <<>>
    /\ dr_buffer = <<>>
    /\ dr_cipher = NoCipher
    /\ dr_pos = 0
    /\ dr_sent_final = FALSE
    /\ dr_out = <<>>
    /\ dr_calls = 0
    /\ dr_last = NoCall
    /\ dr_state = "none"
    /\ dr_eof = FALSE
    /\ dr_irregular = FALSE

Init ==
    /\ SessionInit
    /\ WriterIdle
    /\ RunIdle
    /\ UdpIdle
    /\ CipherIdle
    /\ StreamIdle

----------------------------------------------------------------------------
(* SOCKS5 negotiation: do_handshake, socket_name, TcpRequestHeader *)

\* do_handshake accepts the request iff it offers "no authentication".
HandshakeAcceptsAny(methods) == methods # {}

HandshakeAccepts(methods) == SOCKS5_AUTH_METHOD_NONE \in methods

HandshakeReply(methods) ==
    IF HandshakeAccepts(methods)
    THEN HandshakeResponse(SOCKS5_AUTH_METHOD_NONE)
    ELSE HandshakeResponse(SOCKS5_AUTH_METHOD_NOT_ACCEPTABLE)

\* do_handshake, and handle_client's return when it fails.  The stream is
\* dropped on return: it is the only handle on C at this point.
DoHandshake ==
    /\ pc = "do_handshake"
    /\ \E read_ok \in BOOLEAN, methods \in SUBSET AuthMethods, write_ok \in BOOLEAN :
         IF ~read_ok
         THEN /\ req_methods' = req_methods
              /\ local_wire' = local_wire
              /\ io_error' = TRUE
              /\ pc' = "returned"
              /\ stream_refs' = 0
         ELSE /\ req_methods' = methods
              /\ local_wire' = IF write_ok
                               THEN Append(local_wire, HandshakeReply(methods))
                               ELSE local_wire
              /\ io_error' = ~write_ok
              /\ IF HandshakeAccepts(methods) /\ write_ok
                 THEN pc' = "socket_name" /\ stream_refs' = stream_refs
                 ELSE pc' = "returned" /\ stream_refs' = 0
    /\ UNCHANGED <<outside_session, connect_err, config_vars, l2r_pc, header, header_err, buffered_out, remote_wire,
                   enc_input, encryptor, decryptor, dialed, remote_refs, local_shut,
                   remote_shut, l2r_count, r2l_count, l2r_result, r2l_result, iv_short>>

\* let sockname = try_result!(stream.socket_name(), ...)
SocketName ==
    /\ pc = "socket_name"
    /\ \E ok \in BOOLEAN :
         IF ok
         THEN pc' = "read_header" /\ stream_refs' = stream_refs /\ io_error' = io_error
         ELSE pc' = "returned" /\ stream_refs' = 0 /\ io_error' = TRUE
    /\ UNCHANGED <<outside_session, connect_err, config_vars, l2r_pc, req_methods, header, header_err, local_wire,
                   buffered_out, remote_wire, enc_input, encryptor, decryptor, dialed,
                   remote_refs, local_shut, remote_shut, l2r_count, r2l_count,
                   l2r_result, r2l_result, iv_short>>

\* What the Err arm of TcpRequestHeader::read_from leaves on the wire of C: the
\* TcpResponseHeader is constructed from err.reply and dropped, write_to is
\* never called on it.
HeaderErrorWire(wire, err) == wire

\* TcpRequestHeader::read_from and the match on its result.
ReadHeader ==
    /\ pc = "read_header"
    /\ \/ \E h \in [command : Commands, address : Addresses] :
            /\ header' = h
            /\ pc' = "dispatch"
            /\ UNCHANGED <<header_err, local_wire, stream_refs, io_error>>
       \/ \E e \in [kind : {"protocol", "io"}, reply : HeaderErrorReplies] :
            /\ header_err' = e
            /\ local_wire' = HeaderErrorWire(local_wire, e)
            /\ io_error' = (io_error \/ e.kind = "io")
            /\ pc' = "returned"
            /\ stream_refs' = 0
            /\ UNCHANGED header
    /\ UNCHANGED <<outside_session, connect_err, config_vars, l2r_pc, req_methods, buffered_out, remote_wire,
                   enc_input, encryptor, decryptor, dialed, remote_refs, local_shut,
                   remote_shut, l2r_count, r2l_count, l2r_result, r2l_result, iv_short>>

----------------------------------------------------------------------------
(* BIND and UDP ASSOCIATE *)

\* The reply of the TcpBind arm and of the disabled UdpAssociate arm.
RejectReplySockName(addr) == TcpResponseHeader("CommandNotSupported", SockName)

RejectReply(addr) == TcpResponseHeader("CommandNotSupported", addr)

\* The reply of handle_udp_associate_local: built from stream.socket_name().
UdpAssociateReplyPeer == TcpResponseHeader("Succeeded", PeerName)

UdpAssociateReply == TcpResponseHeader("Succeeded", SockName)

\* cfg!(feature = "enable-udp") && enable_udp
UdpEnabled == feature_enable_udp /\ enable_udp

\* socks5::Command::TcpBind arm, then the return that drops the stream.
TcpBind ==
    /\ pc = "dispatch"
    /\ header.command = "TcpBind"
    /\ \E write_ok \in BOOLEAN :
         /\ local_wire' = IF write_ok
                          THEN Append(local_wire, RejectReply(header.address))
                          ELSE local_wire
         /\ io_error' = (io_error \/ ~write_ok)
    /\ pc' = "returned"
    /\ stream_refs' = 0
    /\ UNCHANGED <<outside_session, connect_err, config_vars, l2r_pc, req_methods, header, header_err, buffered_out,
                   remote_wire, enc_input, encryptor, decryptor, dialed, remote_refs,
                   local_shut, remote_shut, l2r_count, r2l_count, l2r_result,
                   r2l_result, iv_short>>

\* socks5::Command::UdpAssociate arm: peer_name().unwrap(), then either
\* handle_udp_associate_local or the CommandNotSupported reply, then the end of
\* handle_client, where the stream (the only handle on C) is dropped.
UdpAssociate ==
    /\ pc = "dispatch"
    /\ header.command = "UdpAssociate"
    /\ \E peer_ok \in BOOLEAN, sock_ok \in BOOLEAN, write_ok \in BOOLEAN :
         IF ~peer_ok
         THEN /\ pc' = "panicked"
              /\ local_wire' = local_wire
              /\ io_error' = TRUE
         ELSE /\ pc' = "returned"
              /\ IF UdpEnabled
                 THEN /\ local_wire' = IF sock_ok /\ write_ok
                                       THEN Append(local_wire, UdpAssociateReply)
                                       ELSE local_wire
                      /\ io_error' = (io_error \/ ~(sock_ok /\ write_ok))
                 ELSE /\ local_wire' = IF write_ok
                                       THEN Append(local_wire, RejectReply(header.address))
                                       ELSE local_wire
                      /\ io_error' = (io_error \/ ~write_ok)
    /\ stream_refs' = 0
    /\ UNCHANGED <<outside_session, connect_err, config_vars, l2r_pc, req_methods, header, header_err, buffered_out,
                   remote_wire, enc_input, encryptor, decryptor, dialed, remote_refs,
                   local_shut, remote_shut, l2r_count, r2l_count, l2r_result,
                   r2l_result, iv_short>>

----------------------------------------------------------------------------
(* CONNECT: dial, IV, reply, destination address *)

ConnectErrorReplyFailedOther(kind) ==
    IF kind \in {"ConnectionAborted", "ConnectionReset", "ConnectionRefused"}
    THEN "HostUnreachable"
    ELSE "NetworkUnreachable"

\* The reply chosen from the error kind of TcpStream::connect.
ConnectErrorReply(kind) ==
    IF kind \in {"ConnectionAborted", "ConnectionReset", "ConnectionRefused",
                 "ConnectionFailed"}
    THEN "HostUnreachable"
    ELSE "NetworkUnreachable"

\* socks5::Command::TcpConnect arm: TcpStream::connect and its Err arm, whose
\* reply is written with unwrap().
Connect ==
    /\ pc = "dispatch"
    /\ header.command = "TcpConnect"
    /\ dialed' = dialed + 1
    /\ \/ /\ remote_refs' = 1
          /\ pc' = "write_iv"
          /\ UNCHANGED <<local_wire, stream_refs, io_error, connect_err>>
       \/ \E kind \in ConnectErrorKinds, write_ok \in BOOLEAN :
            /\ connect_err' = kind
            /\ local_wire' =
                 IF write_ok
                 THEN Append(local_wire,
                             TcpResponseHeader(ConnectErrorReply(kind), header.address))
                 ELSE local_wire
            /\ io_error' = (io_error \/ ~write_ok)
            /\ pc' = IF write_ok THEN "returned" ELSE "panicked"
            /\ stream_refs' = 0
            /\ UNCHANGED remote_refs
    /\ UNCHANGED <<outside_session, config_vars, l2r_pc, req_methods, header, header_err, buffered_out,
                   remote_wire, enc_input, encryptor, decryptor, remote_shut, local_shut,
                   l2r_count, r2l_count, l2r_result, r2l_result, iv_short>>

\* buffered_local_stream = BufferedStream::new(stream.clone()); gen_init_vec;
\* cipher::with_type(.., Encrypt); remote_stream.write(iv); EncryptedWriter::new
\* on a clone of remote_stream.  When the write fails handle_client returns: the
\* encryptor (not yet in a writer) and every handle are dropped.
WriteIv ==
    /\ pc = "write_iv"
    /\ \E write_ok \in BOOLEAN :
         IF write_ok
         THEN /\ remote_wire' = Append(remote_wire, gen_init_vec(encrypt_method))
              /\ encryptor' = "live"
              /\ stream_refs' = stream_refs + 1
              /\ remote_refs' = remote_refs + 1
              /\ pc' = "write_reply"
         ELSE /\ remote_wire' = remote_wire
              /\ encryptor' = "dropped"
              /\ stream_refs' = 0
              /\ remote_refs' = 0
              /\ pc' = "returned"
    /\ UNCHANGED <<outside_session, connect_err, config_vars, l2r_pc, req_methods, header, header_err, local_wire,
                   buffered_out, enc_input, decryptor, dialed, local_shut, remote_shut,
                   l2r_count, r2l_count, l2r_result, r2l_result, iv_short, io_error>>

\* TcpResponseHeader::new(Succeeded, sockname).write_to(&mut buffered_local_stream):
\* the reply goes to the write buffer of the BufferedStream.
WriteReply ==
    /\ pc = "write_reply"
    /\ buffered_out' = Append(buffered_out, TcpResponseHeader("Succeeded", SockName))
    /\ pc' = "flush_reply"
    /\ UNCHANGED <<outside_session, connect_err, config_vars, l2r_pc, req_methods, header, header_err, local_wire,
                   remote_wire, enc_input, encryptor, decryptor, dialed, stream_refs,
                   remote_refs, local_shut, remote_shut, l2r_count, r2l_count,
                   l2r_result, r2l_result, iv_short, io_error>>

\* Drop of an EncryptedWriter: finalize().unwrap().  The tail goes to the
\* writer when the cipher and the write succeed; otherwise the thread panics.
FinalizedWire(wire, cipher_ok, write_ok) ==
    IF cipher_ok /\ write_ok THEN Append(wire, FinalBytes) ELSE wire

\* BufferedStream::flush: the buffer goes to the socket.
FlushedWireLost(wire, buf) == wire

FlushedWire(wire, buf) == wire \o buf

\* buffered_local_stream.flush().  On failure handle_client returns and drops
\* encrypt_stream (finalize), the buffered stream (buffer already reset) and
\* the handles.
FlushReply ==
    /\ pc = "flush_reply"
    /\ buffered_out' = <<>>
    /\ \E flush_ok \in BOOLEAN, cipher_ok \in BOOLEAN, write_ok \in BOOLEAN :
         IF flush_ok
         THEN /\ local_wire' = FlushedWire(local_wire, buffered_out)
              /\ pc' = "write_addr"
              /\ UNCHANGED <<remote_wire, encryptor, stream_refs, remote_refs, io_error>>
         ELSE /\ local_wire' = local_wire
              /\ io_error' = TRUE
              /\ encryptor' = "finalized"
              /\ remote_wire' = FinalizedWire(remote_wire, cipher_ok, write_ok)
              /\ pc' = IF cipher_ok /\ write_ok THEN "returned" ELSE "panicked"
              /\ stream_refs' = 0
              /\ remote_refs' = 0
    /\ UNCHANGED <<outside_session, connect_err, config_vars, l2r_pc, req_methods, header, header_err, enc_input,
                   decryptor, dialed, local_shut, remote_shut, l2r_count, r2l_count,
                   l2r_result, r2l_result, iv_short>>

\* EncryptedWriter::write: cipher.update(buf), then writer.write of its result;
\* nothing is written when update fails.
EncryptedWire(wire, plain, cipher_ok, write_ok) ==
    IF cipher_ok /\ write_ok THEN Append(wire, encrypt_update(plain)) ELSE wire

\* A handle_client that goes on to spawn the copy thread without having
\* written the destination address.
WriteAddrOmitted ==
    /\ pc = "write_addr"
    /\ pc' = "spawn"
    /\ UNCHANGED <<outside_session, connect_err, config_vars, l2r_pc, req_methods, header, header_err, local_wire,
                   buffered_out, remote_wire, enc_input, encryptor, decryptor, dialed,
                   stream_refs, remote_refs, local_shut, remote_shut, l2r_count,
                   r2l_count, l2r_result, r2l_result, iv_short, io_error>>

\* addr.write_to(&mut encrypt_stream).  On failure handle_client returns and
\* drops encrypt_stream (finalize) and the handles.
WriteAddr ==
    /\ pc = "write_addr"
    /\ enc_input' = Append(enc_input, AddressBytes(header.address))
    /\ \E cipher_ok \in BOOLEAN, write_ok \in BOOLEAN,
          fin_ok \in BOOLEAN, fin_write_ok \in BOOLEAN :
         IF cipher_ok /\ write_ok
         THEN /\ remote_wire' = EncryptedWire(remote_wire, AddressBytes(header.address),
                                              cipher_ok, write_ok)
              /\ pc' = "spawn"
              /\ UNCHANGED <<encryptor, stream_refs, remote_refs>>
         ELSE /\ encryptor' = "finalized"
              /\ remote_wire' = FinalizedWire(remote_wire, fin_ok, fin_write_ok)
              /\ pc' = IF fin_ok /\ fin_write_ok THEN "returned" ELSE "panicked"
              /\ stream_refs' = 0
              /\ remote_refs' = 0
    /\ UNCHANGED <<outside_session, connect_err, config_vars, l2r_pc, req_methods, header, header_err, local_wire,
                   buffered_out, decryptor, dialed, local_shut, remote_shut, l2r_count,
                   r2l_count, l2r_result, r2l_result, iv_short, io_error>>

\* remote_stream.clone(), stream.clone(), Thread::spawn: the closure owns
\* buffered_local_stream, encrypt_stream and the two clones.
Spawn ==
    /\ pc = "spawn"
    /\ stream_refs' = stream_refs + 1
    /\ remote_refs' = remote_refs + 1
    /\ l2r_pc' = "copy"
    /\ l2r_result' = "running"
    /\ pc' = "read_remote_iv"
    /\ UNCHANGED <<outside_session, connect_err, config_vars, req_methods, header, header_err, local_wire,
                   buffered_out, remote_wire, enc_input, encryptor, decryptor, dialed,
                   local_shut, remote_shut, l2r_count, r2l_count, r2l_result, iv_short,
                   io_error>>

----------------------------------------------------------------------------
(* The two relay directions *)

\* io::util::copy(r, w): an EndOfFile from r.read ends the copy with Ok(());
\* any other read error and any write error end it with Err.
CopyResult(outcome) == IF outcome = "eof" THEN "ok" ELSE "err"

\* close_write() of the Err arms (both arms call it on the remote stream).
close_write(shut) == [shut EXCEPT !.write = TRUE]

\* close_read() of the Err arms (both arms call it on the local stream).
close_read(shut) == [shut EXCEPT !.read = TRUE]

\* One iteration of io::util::copy(&mut buffered_local_stream, &mut encrypt_stream)
\* in the spawned thread: read a chunk from C, EncryptedWriter::write it to S.
L2RCopy ==
    /\ l2r_pc = "copy"
    /\ \/ \E d \in Data, cipher_ok \in BOOLEAN, write_ok \in BOOLEAN :
            /\ l2r_count < MaxChunks
            /\ CanRead(stream_refs, local_shut)
            /\ write_ok => CanWrite(remote_refs, remote_shut)
            /\ l2r_count' = l2r_count + 1
            /\ enc_input' = Append(enc_input, DataBytes(d))
            /\ remote_wire' = EncryptedWire(remote_wire, DataBytes(d), cipher_ok, write_ok)
            /\ IF cipher_ok /\ write_ok
               THEN UNCHANGED <<l2r_pc, l2r_result>>
               ELSE l2r_pc' = "finish" /\ l2r_result' = CopyResult("write_err")
            /\ UNCHANGED io_error
       \/ \E outcome \in {"eof", "read_err"} :
            /\ outcome = "read_err" => CanRead(stream_refs, local_shut)
            /\ l2r_result' = CopyResult(outcome)
            /\ l2r_pc' = "finish"
            /\ io_error' = (io_error \/ outcome = "read_err")
            /\ UNCHANGED <<l2r_count, enc_input, remote_wire>>
    /\ UNCHANGED <<outside_session, connect_err, config_vars, pc, req_methods, header, header_err, local_wire,
                   buffered_out, encryptor, decryptor, dialed, stream_refs, remote_refs,
                   local_shut, remote_shut, r2l_count, r2l_result, iv_short>>

\* The match on the copy's result in the spawned thread and the end of the
\* closure: on Err, remote_stream_cloned.close_write() and
\* local_stream_cloned.close_read(); on Ok nothing.  Then the closure's values
\* are dropped: encrypt_stream (finalize().unwrap()) and four handles.
L2RFinish ==
    /\ l2r_pc = "finish"
    /\ IF l2r_result = "err"
       THEN /\ remote_shut' = close_write(remote_shut)
            /\ local_shut' = close_read(local_shut)
       ELSE UNCHANGED <<remote_shut, local_shut>>
    /\ \E cipher_ok \in BOOLEAN, write_ok \in BOOLEAN :
         /\ encryptor' = "finalized"
         /\ remote_wire' = FinalizedWire(remote_wire, cipher_ok, write_ok)
         /\ l2r_pc' = IF cipher_ok /\ write_ok THEN "done" ELSE "panicked"
    /\ stream_refs' = stream_refs - 2
    /\ remote_refs' = remote_refs - 2
    /\ UNCHANGED <<outside_session, connect_err, config_vars, pc, req_methods, header, header_err, local_wire,
                   buffered_out, enc_input, decryptor, dialed, l2r_count, r2l_count,
                   l2r_result, r2l_result, iv_short, io_error>>

\* remote_stream.read_exact(encrypt_method.block_size()), cipher::with_type(..,
\* Decrypt), DecryptedReader::new on a clone of remote_stream.  A short read
\* returns from handle_client, which drops stream and remote_stream; the
\* spawned thread keeps its own handles.
ReadRemoteIv ==
    /\ pc = "read_remote_iv"
    /\ \/ /\ block_size(encrypt_method) = 0 \/ CanRead(remote_refs, remote_shut)
          /\ decryptor' = "live"
          /\ remote_refs' = remote_refs + 1
          /\ r2l_result' = "running"
          /\ pc' = "r2l_copy"
          /\ UNCHANGED <<iv_short, stream_refs>>
       \/ /\ block_size(encrypt_method) > 0
          /\ iv_short' = TRUE
          /\ stream_refs' = stream_refs - 1
          /\ remote_refs' = remote_refs - 1
          /\ pc' = "returned"
          /\ UNCHANGED <<decryptor, r2l_result>>
    /\ UNCHANGED <<outside_session, connect_err, config_vars, l2r_pc, req_methods, header, header_err, local_wire,
                   buffered_out, remote_wire, enc_input, encryptor, dialed, local_shut,
                   remote_shut, l2r_count, r2l_count, l2r_result, io_error>>

\* The chunk sent by the remote written to the client as it came.
DecryptedWireRaw(wire, chunk, cipher_ok, write_ok) ==
    IF cipher_ok /\ write_ok THEN Append(wire, chunk) ELSE wire

\* DecryptedReader::read of one chunk sent by the remote, then stream.write.
DecryptedWire(wire, chunk, cipher_ok, write_ok) ==
    IF cipher_ok /\ write_ok THEN Append(wire, decrypt_update(chunk)) ELSE wire

\* One iteration of io::util::copy(&mut decrypt_stream, &mut stream) in the
\* worker thread.  At EndOfFile fill_buf finalizes the decryptor and, the tail
\* being empty, returns the EndOfFile error.
R2LCopy ==
    /\ pc = "r2l_copy"
    /\ \/ \E d \in Data, cipher_ok \in BOOLEAN, write_ok \in BOOLEAN :
            /\ r2l_count < MaxChunks
            /\ CanRead(remote_refs, remote_shut)
            /\ write_ok => CanWrite(stream_refs, local_shut)
            /\ r2l_count' = r2l_count + 1
            /\ local_wire' = DecryptedWire(local_wire, encrypt_update(DataBytes(d)),
                                           cipher_ok, write_ok)
            /\ IF cipher_ok /\ write_ok
               THEN UNCHANGED <<pc, r2l_result>>
               ELSE pc' = "r2l_finish" /\ r2l_result' = CopyResult("write_err")
            /\ io_error' = (io_error \/ (cipher_ok /\ ~write_ok))
            /\ UNCHANGED decryptor
       \/ \E outcome \in {"eof", "read_err", "finalize_err"} :
            /\ outcome = "read_err" => CanRead(remote_refs, remote_shut)
            /\ decryptor' = IF outcome = "read_err" THEN decryptor ELSE "finalized"
            /\ r2l_result' = CopyResult(outcome)
            /\ pc' = "r2l_finish"
            /\ UNCHANGED <<r2l_count, local_wire, io_error>>
    /\ UNCHANGED <<outside_session, connect_err, config_vars, l2r_pc, req_methods, header, header_err, buffered_out,
                   remote_wire, enc_input, encryptor, dialed, stream_refs, remote_refs,
                   local_shut, remote_shut, l2r_count, l2r_result, iv_short>>

\* The match on the copy's result in the worker thread and the end of
\* handle_client: on Err, remote_stream.close_write() and stream.close_read();
\* on Ok nothing.  Then decrypt_stream, remote_stream and stream are dropped.
R2LFinish ==
    /\ pc = "r2l_finish"
    /\ IF r2l_result = "err"
       THEN /\ remote_shut' = close_write(remote_shut)
            /\ local_shut' = close_read(local_shut)
       ELSE UNCHANGED <<remote_shut, local_shut>>
    /\ decryptor' = IF decryptor = "live" THEN "dropped" ELSE decryptor
    /\ stream_refs' = stream_refs - 1
    /\ remote_refs' = remote_refs - 2
    /\ pc' = "returned"
    /\ UNCHANGED <<outside_session, connect_err, config_vars, l2r_pc, req_methods, header, header_err, local_wire,
                   buffered_out, remote_wire, enc_input, encryptor, dialed, l2r_count,
                   r2l_count, l2r_result, r2l_result, iv_short, io_error>>

----------------------------------------------------------------------------
Next ==
    \/ DoHandshake
    \/ SocketName
    \/ ReadHeader
    \/ TcpBind
    \/ UdpAssociate
    \/ Connect
    \/ WriteIv
    \/ WriteReply
    \/ FlushReply
    \/ WriteAddr
    \/ Spawn
    \/ L2RCopy
    \/ L2RFinish
    \/ ReadRemoteIv
    \/ R2LCopy
    \/ R2LFinish

Spec == Init /\ [][Next]_vars

----------------------------------------------------------------------------
(* EncryptedWriter: write, finalize and the destructor, called in any order *)

\* What a step of the writer leaves alone.
outside_writer == <<session_vars, run_vars, udp_vars, cipher_vars, stream_vars>>

\* EncryptedWriter::new: the writer and its cipher, nothing written yet.
InitWriter ==
    /\ SessionIdle
    /\ ew_state = "live"
    /\ ew_ops = 0
    /\ ew_out = <<>>
    /\ ew_finalized = 0
    /\ ew_update_after = FALSE
    /\ ew_panicked = FALSE
    /\ RunIdle
    /\ UdpIdle
    /\ CipherIdle
    /\ StreamIdle

\* Writer::write of EncryptedWriter: cipher.update(buf), then the result is
\* written to the underlying writer; there is no check that finalize was not
\* called before.
EwWrite ==
    /\ ew_state = "live"
    /\ ew_ops < MaxWriterCalls
    /\ ew_ops' = ew_ops + 1
    /\ ew_update_after' = (ew_update_after \/ ew_finalized > 0)
    /\ \E d \in Data, cipher_ok \in BOOLEAN, write_ok \in BOOLEAN :
         ew_out' = IF cipher_ok /\ write_ok
                   THEN Append(ew_out, encrypt_update(DataBytes(d)))
                   ELSE ew_out
    /\ UNCHANGED <<outside_writer, ew_state, ew_finalized, ew_panicked>>

\* The number of cipher.finalize() calls after one more call of
\* EncryptedWriter::finalize: the cipher is finalized whatever came before.
FinalizeCount(n) == n + 1

\* EncryptedWriter::finalize called by the owner (it is pub): cipher.finalize(),
\* then the tail is written.
EwFinalize ==
    /\ ew_state = "live"
    /\ ew_ops < MaxWriterCalls
    /\ ew_ops' = ew_ops + 1
    /\ ew_finalized' = FinalizeCount(ew_finalized)
    /\ \E cipher_ok \in BOOLEAN, write_ok \in BOOLEAN :
         ew_out' = IF cipher_ok /\ write_ok THEN Append(ew_out, FinalBytes)
                   ELSE ew_out
    /\ UNCHANGED <<outside_writer, ew_state, ew_update_after, ew_panicked>>

\* Drop for EncryptedWriter: self.finalize().unwrap().
EwDrop ==
    /\ ew_state = "live"
    /\ ew_state' = "dropped"
    /\ ew_finalized' = FinalizeCount(ew_finalized)
    /\ \E cipher_ok \in BOOLEAN, write_ok \in BOOLEAN :
         /\ ew_out' = IF cipher_ok /\ write_ok THEN Append(ew_out, FinalBytes)
                      ELSE ew_out
         /\ ew_panicked' = ~(cipher_ok /\ write_ok)
    /\ UNCHANGED <<outside_writer, ew_ops, ew_update_after>>

NextWriter ==
    \/ EwWrite
    \/ EwFinalize
    \/ EwDrop

SpecWriter == InitWriter /\ [][NextWriter]_vars

----------------------------------------------------------------------------
(* TcpRelayLocal::run: the accept loop *)

\* What a step of the accept loop or of one of its workers leaves alone.
outside_run == <<session_vars, writer_vars, udp_vars, cipher_vars, stream_vars>>

\* LoadBalancer::total of RoundRobin: the length of the server list.
total == Len(servers)

\* LoadBalancer::pick_server of RoundRobin: the server at the index, and the
\* index advanced by one modulo the length.
pick_server(index) == [server |-> index + 1, index |-> (index + 1) % total]

\* The balancer an accept finds: the one created before the loop, with the
\* index the previous accepts left.
BalancerAtAcceptFresh(index) == 0

BalancerAtAccept(index) == index

\* The match on cached_proxy.get(host): a cached entry is used as it is; on a
\* miss get_host_addresses is called and a non-empty answer is cached.
ResolveAgain(cache, host, answer) ==
    IF ~answer.ok
    THEN [outcome |-> "error", addrs |-> <<>>, cache |-> cache]
    ELSE IF answer.addrs = <<>>
    THEN [outcome |-> "empty", addrs |-> <<>>, cache |-> cache]
    ELSE [outcome |-> "resolved", addrs |-> answer.addrs,
          cache |-> [h \in DOMAIN cache \cup {host} |->
                        IF h = host THEN answer.addrs ELSE cache[h]]]

\* The match without the is_empty check: an empty answer is cached and used.
ResolveKeepEmpty(cache, host, answer) ==
    IF host \in DOMAIN cache
    THEN [outcome |-> "cached", addrs |-> cache[host], cache |-> cache]
    ELSE IF ~answer.ok
    THEN [outcome |-> "error", addrs |-> <<>>, cache |-> cache]
    ELSE [outcome |-> "resolved", addrs |-> answer.addrs,
          cache |-> [h \in DOMAIN cache \cup {host} |->
                        IF h = host THEN answer.addrs ELSE cache[h]]]

Resolve(cache, host, answer) ==
    IF host \in DOMAIN cache
    THEN [outcome |-> "cached", addrs |-> cache[host], cache |-> cache]
    ELSE IF ~answer.ok
    THEN [outcome |-> "error", addrs |-> <<>>, cache |-> cache]
    ELSE IF answer.addrs = <<>>
    THEN [outcome |-> "empty", addrs |-> <<>>, cache |-> cache]
    ELSE [outcome |-> "resolved", addrs |-> answer.addrs,
          cache |-> [h \in DOMAIN cache \cup {host} |->
                        IF h = host THEN answer.addrs ELSE cache[h]]]

Failed(outcome) == outcome \in {"error", "empty"}

\* The loop "for _ in range(0, total())" of one accept, after n iterations:
\* pick a server, resolve it, continue on a failure, spawn and break otherwise.
\* addrs.first().unwrap() on an empty list panics in run(): the loop ends
\* with no worker and with the server it was building the address of.
RECURSIVE TryServersGiveUp(_, _, _, _, _)
TryServersGiveUp(n, index, cache, answers, tried) ==
    IF n = total
    THEN [succeed |-> FALSE, index |-> index, cache |-> cache, tried |-> tried,
          server |-> 0, server_addr |-> <<>>]
    ELSE LET p == pick_server(index)
             r == Resolve(cache, servers[p.server].addr, answers[n + 1])
             t == Append(tried, [server |-> p.server, outcome |-> r.outcome])
         IN IF Failed(r.outcome)
            THEN [succeed |-> FALSE, index |-> p.index, cache |-> r.cache,
                  tried |-> t, server |-> 0, server_addr |-> <<>>]
            ELSE [succeed |-> TRUE, index |-> p.index, cache |-> r.cache,
                  tried |-> t, server |-> p.server,
                  server_addr |-> <<Head(r.addrs), servers[p.server].port>>]

RECURSIVE TryServers(_, _, _, _, _)
TryServers(n, index, cache, answers, tried) ==
    IF n = total
    THEN [succeed |-> FALSE, index |-> index, cache |-> cache, tried |-> tried,
          server |-> 0, server_addr |-> <<>>]
    ELSE LET p == pick_server(index)
             r == Resolve(cache, servers[p.server].addr, answers[n + 1])
             t == Append(tried, [server |-> p.server, outcome |-> r.outcome])
         IN IF Failed(r.outcome)
            THEN TryServers(n + 1, p.index, r.cache, answers, t)
            ELSE IF r.addrs = <<>>
            THEN [succeed |-> FALSE, index |-> p.index, cache |-> r.cache,
                  tried |-> t, server |-> p.server, server_addr |-> <<>>]
            ELSE [succeed |-> TRUE, index |-> p.index, cache |-> r.cache,
                  tried |-> t, server |-> p.server,
                  server_addr |-> <<Head(r.addrs), servers[p.server].port>>]

\* run() up to the accept loop: the balancer over config.server and an empty
\* resolver cache.
InitRun ==
    /\ SessionIdle
    /\ WriterIdle
    /\ servers \in ServerLists
    /\ rr_index = 0
    /\ cached_proxy = <<>>
    /\ relay_state = "accepting"
    /\ accepted = 0
    /\ last_accept = NoAccept
    /\ picks = <<>>
    /\ conns = <<>>
    /\ UdpIdle
    /\ CipherIdle
    /\ StreamIdle

\* One iteration of "for s in acceptor.incoming()" for an accepted stream:
\* the servers are tried, the worker is spawned for the first that resolves,
\* and run() panics when none does ("aborted") or when the address list it
\* takes the first address of is empty ("unwrap_failed").
Accept ==
    /\ relay_state = "accepting"
    /\ accepted < MaxAccepts
    /\ \E answers \in [1..total -> LookupResults] :
         LET start == BalancerAtAccept(rr_index)
             r == TryServers(0, start, cached_proxy, answers, <<>>)
         IN /\ accepted' = accepted + 1
            /\ rr_index' = r.index
            /\ cached_proxy' = r.cache
            /\ picks' = picks \o [i \in 1..Len(r.tried) |-> r.tried[i].server]
            /\ last_accept' = [start |-> start, tried |-> r.tried,
                               spawned |-> IF r.succeed THEN 1 ELSE 0]
            /\ conns' = IF r.succeed
                        THEN Append(conns, [server |-> r.server,
                                            server_addr |-> r.server_addr,
                                            status |-> "running"])
                        ELSE conns
            /\ relay_state' = IF r.succeed THEN "accepting"
                               ELSE IF r.server # 0 THEN "unwrap_failed"
                               ELSE "aborted"
    /\ UNCHANGED <<outside_run, servers>>

\* acceptor.incoming() yields an error: s.unwrap() panics.
AcceptError ==
    /\ relay_state = "accepting"
    /\ relay_state' = "accept_error"
    /\ UNCHANGED <<outside_run, servers, rr_index, cached_proxy, accepted,
                   last_accept, picks, conns>>

\* How the thread of handle_client ends for an outcome: the errors caught by
\* try_result! or a match return, the unwrap() of a reply write and of the
\* writer's destructor panic.
ThreadEnd(outcome) ==
    IF outcome \in {"reply_write_failed", "finalize_failed"}
    THEN "panicked"
    ELSE "returned"

\* What the end of a worker does to run(): the worker is a thread of its own
\* (Thread::spawn), its return or panic does not reach the accept loop.
RelayAfterWorkerPanic(relay, outcome) ==
    IF ThreadEnd(outcome) = "panicked" THEN "aborted" ELSE relay

RelayAfterWorker(relay, outcome) == relay

\* The thread of connection i ends.
WorkerEnd ==
    /\ relay_state # "none"
    /\ \E i \in 1..Len(conns), outcome \in WorkerOutcomes :
         /\ conns[i].status = "running"
         /\ conns' = [conns EXCEPT ![i].status = ThreadEnd(outcome)]
         /\ relay_state' = RelayAfterWorker(relay_state, outcome)
    /\ UNCHANGED <<outside_run, servers, rr_index, cached_proxy, accepted,
                   last_accept, picks>>

NextRun ==
    \/ Accept
    \/ AcceptError
    \/ WorkerEnd

SpecRun == InitRun /\ [][NextRun]_vars

----------------------------------------------------------------------------
(* UDP relay: datagram formats, the LRU client map *)

\* What a step of the UDP relay or of one of its threads leaves alone.
outside_udp == <<session_vars, writer_vars, run_vars, cipher_vars, stream_vars>>

RsvBytes == [type |-> "rsv", len |-> 2]

FragByte(frag) == [type |-> "frag", frag |-> frag]

\* An address whose type byte is none of IPv4, IPv6, domain name.
BadAtypByte == [type |-> "bad_atyp"]

\* The payload of datagram n; every datagram carries its own.
Payload(n) == [type |-> "payload", id |-> n]

\* n bytes that are no message of either protocol.
RawBytes(n) == [type |-> "raw", len |-> n]

\* Number of bytes of a field and of a sequence of fields; a stream cipher
\* keeps the length.
RECURSIVE FieldLen(_), SumLen(_)
FieldLen(f) ==
    CASE f.type = "rsv" -> 2
      [] f.type = "frag" -> 1
      [] f.type = "address" -> 7
      [] f.type = "bad_atyp" -> 1
      [] f.type = "payload" -> 5
      [] f.type = "iv" -> f.len
      [] f.type = "raw" -> f.len
      [] f.type = "final" -> 0
      [] f.type = "ciphertext" -> SumLen(f.of)

SumLen(fields) ==
    IF fields = <<>> THEN 0 ELSE FieldLen(Head(fields)) + SumLen(Tail(fields))

\* UdpAssociateHeader::write_to: RSV (2 bytes), FRAG, the address.
UdpAssociateHeaderBytes(frag, address) ==
    <<RsvBytes, FragByte(frag), AddressBytes(address)>>

\* UdpAssociateHeader::read_from: the header at the front of a datagram and
\* what follows it.
UdpAssociateHeaderRead(content) ==
    IF /\ Len(content) >= 3
       /\ content[1].type = "rsv"
       /\ content[2].type = "frag"
       /\ content[3].type = "address"
    THEN [ok |-> TRUE, frag |-> content[2].frag, address |-> content[3].address,
          rest |-> SubSeq(content, 4, Len(content))]
    ELSE [ok |-> FALSE, frag |-> 0, address |-> "", rest |-> <<>>]

\* socks5::Address::read_from on the decrypted bytes.
AddressRead(plain) ==
    IF Len(plain) >= 1 /\ plain[1].type = "address"
    THEN [ok |-> TRUE, address |-> plain[1].address, rest |-> Tail(plain)]
    ELSE [ok |-> FALSE, address |-> "", rest |-> <<>>]

\* request_message[2]: the third byte of a datagram from a client.
ThirdByte(content) ==
    IF Len(content) >= 2 /\ content[2].type = "frag" THEN content[2].frag ELSE 0

\* The fragmentation check at the head of handle_request.
FragDroppedNever(content) == FALSE

FragDropped(content) == ThirdByte(content) # 0

\* The datagrams a local application may send as datagram n. The first
\* application sends every kind: too short, an unknown address type, FRAG 1,
\* and FRAG 0 for every destination; the second one competes for "dst1".
ClientDatagrams(source, n) ==
    IF source = <<"ipC1", 5000>>
    THEN {<<RsvBytes, FragByte(0)>>,
          <<RsvBytes, FragByte(0), BadAtypByte, Payload(n)>>,
          UdpAssociateHeaderBytes(1, "dst1") \o <<Payload(n)>>}
           \cup {UdpAssociateHeaderBytes(0, a) \o <<Payload(n)>> :
                   a \in UdpDestinations}
    ELSE {UdpAssociateHeaderBytes(0, "dst1") \o <<Payload(n)>>}

\* The datagrams a server using the method may send as datagram n: the IV
\* and the encryption of address and payload, or bytes that are neither.
ServerDatagrams(n, method) ==
    {<<RawBytes(5)>>,
     <<gen_init_vec(method), encrypt_update(<<AddressBytes("dst1"), Payload(n)>>)>>}

\* The function f with f[k] = v.
Put(f, k, v) == [x \in DOMAIN f \cup {k} |-> IF x = k THEN v ELSE f[x]]

LruWithout(map, k) ==
    LET Other(e) == e.key # k IN SelectSeq(map, Other)

LruHas(map, k) == \E i \in 1..Len(map) : map[i].key = k

LruValue(map, k) == map[CHOOSE i \in 1..Len(map) : map[i].key = k].value

\* LruCache::insert: the entry becomes the most recently used, an entry of
\* the same key is replaced, and beyond the capacity the least recently used
\* entry is removed.
LruInsertKeepOld(map, k, v) ==
    IF LruHas(map, k) THEN map
    ELSE LET m == Append(map, [key |-> k, value |-> v])
         IN IF Len(m) > UDP_RELAY_LOCAL_LRU_CACHE_CAPACITY THEN Tail(m) ELSE m

LruInsert(map, k, v) ==
    LET m == Append(LruWithout(map, k), [key |-> k, value |-> v])
    IN IF Len(m) > UDP_RELAY_LOCAL_LRU_CACHE_CAPACITY THEN Tail(m) ELSE m

\* LruCache::get on a hit: the entry becomes the most recently used.
LruTouch(map, k) ==
    Append(LruWithout(map, k), [key |-> k, value |-> LruValue(map, k)])

\* The record of which source was last recorded for a destination and which
\* other destinations were inserted since.
Recorded(b, dst, src) ==
    [d \in DOMAIN b \cup {dst} |->
        IF d = dst THEN [src |-> src, others |-> {}]
        ELSE [src |-> b[d].src, others |-> b[d].others \cup {dst}]]

\* socket.send_to, called once by a handler: what goes out on the socket.
SendToTwice(to, payload) ==
    <<[to |-> to, payload |-> payload], [to |-> to, payload |-> payload]>>

SendTo(to, payload) == <<[to |-> to, payload |-> payload]>>

\* The end of the thread of datagram i: how it ended and what it sent.
Ended(w, i, how, out) == [how |-> how, by |-> w, cause |-> i, sent |-> out]

----------------------------------------------------------------------------
(* UdpRelayLocal::run, handle_request, handle_response *)

\* The loop over config.server before the receive loop: every server whose
\* lookup gives at least one address is entered under its first address and
\* its port in server_set, and its hostname in server_addr.
RECURSIVE ResolveServers(_, _, _, _, _)
ResolveServers(list, i, answers, set, addr) ==
    IF i > Len(list) THEN [server_set |-> set, server_addr |-> addr]
    ELSE IF ~answers[i].ok \/ answers[i].addrs = <<>>
    THEN ResolveServers(list, i + 1, answers, set, addr)
    ELSE LET e == <<Head(answers[i].addrs), list[i].port>>
         IN ResolveServers(list, i + 1, answers, Put(set, e, i),
                           Put(addr, list[i].addr, e))

\* run() up to the receive loop.
InitUdp ==
    /\ SessionIdle
    /\ WriterIdle
    /\ servers \in ServerLists
    /\ rr_index = 0
    /\ cached_proxy = <<>>
    /\ relay_state = "none"
    /\ accepted = 0
    /\ last_accept = NoAccept
    /\ picks = <<>>
    /\ conns = <<>>
    /\ udp_state = "receiving"
    /\ \E answers \in [1..Len(servers) -> StartupAnswers] :
         LET r == ResolveServers(servers, 1, answers, <<>>, <<>>)
         IN server_set = r.server_set /\ server_addr = r.server_addr
    /\ udp_rr_index = 0
    /\ client_map = <<>>
    /\ received = 0
    /\ workers = <<>>
    /\ last_ended = NoEnd
    /\ bindings = <<>>
    /\ mutex = NoLock
    /\ asked = {}
    /\ inserted = {}
    /\ CipherIdle
    /\ StreamIdle

\* The datagrams whose thread has not ended.
Running == {i \in 1..Len(workers) : workers[i].pc # "none"}

\* The balancer consulted only for a datagram that passes the FRAG check.
PickedAtReceiveFragChecked(index, content) ==
    IF FragDropped(content)
    THEN [server |-> pick_server(index).server, index |-> index]
    ELSE pick_server(index)

\* server_load_balancer.pick_server() in the receive loop: called for every
\* datagram of at least 4 bytes that is not from a server, before any byte
\* of it is looked at.
PickedAtReceive(index, content) == pick_server(index)

\* One iteration of the receive loop: a datagram shorter than 4 bytes is
\* skipped; one from an endpoint of server_set gets a handle_response
\* thread; for any other the balancer picks a server and, when that server
\* has a resolved endpoint, a handle_request thread is spawned.
UdpReceive ==
    /\ udp_state = "receiving"
    /\ received < MaxDatagrams
    /\ Cardinality(Running) < MaxThreads
    /\ received' = received + 1
    /\ LET n == received + 1 IN
       \/ \E source \in DOMAIN server_set :
            \E content \in ServerDatagrams(n, servers[server_set[source]].method) :
              /\ workers' = Append(workers,
                    [NoWorker EXCEPT !.kind = "response", !.pc = "start",
                                     !.server = server_set[source],
                                     !.from = source, !.content = content])
              /\ UNCHANGED <<udp_rr_index, last_ended>>
       \/ \E source \in UdpClients :
            \E content \in ClientDatagrams(source, n) :
              IF SumLen(content) < 4
              THEN /\ workers' = Append(workers, NoWorker)
                   /\ UNCHANGED <<udp_rr_index, last_ended>>
              ELSE LET p == PickedAtReceive(udp_rr_index, content)
                       host == servers[p.server].addr
                       request == [NoWorker EXCEPT !.kind = "request",
                                                   !.server = p.server,
                                                   !.from = source,
                                                   !.content = content]
                   IN /\ udp_rr_index' = p.index
                      /\ IF host \in DOMAIN server_addr
                         THEN /\ workers' = Append(workers,
                                    [request EXCEPT !.pc = "start",
                                                    !.saddr = server_addr[host]])
                              /\ UNCHANGED last_ended
                         ELSE /\ workers' = Append(workers, NoWorker)
                              /\ last_ended' = Ended(request, n, "no_endpoint", <<>>)
    /\ UNCHANGED <<outside_udp, udp_state, server_set, server_addr, client_map,
                   bindings, thread_vars>>

\* socket.recv_from fails: the loop ends. The bounds of the receive loop are
\* bounds on its calls of recv_from, whatever a call returns.
UdpRecvError ==
    /\ udp_state = "receiving"
    /\ received < MaxDatagrams
    /\ Cardinality(Running) < MaxThreads
    /\ udp_state' = "stopped"
    /\ UNCHANGED <<outside_udp, server_set, server_addr, udp_rr_index, client_map,
                   received, workers, last_ended, bindings, thread_vars>>

\* What handle_request feeds to the encryptor: request.write_to(&mut wbuf),
\* then the rest of the datagram.
RequestPlaintext(request) ==
    UdpAssociateHeaderBytes(request.frag, request.address) \o request.rest

\* handle_request, the thread of a datagram from a client: the FRAG check
\* returns; a header that does not parse panics; otherwise
\* client_map[address] = from_addr is recorded under the mutex, the buffer is
\* encrypted under a fresh IV and sent to the server's endpoint; a failure
\* of the cipher or of the send (io_ok false) is an unwrap or expect. Only
\* the insert touches what the threads share.
HandleRequest ==
    /\ \E i \in 1..Len(workers), io_ok \in BOOLEAN :
         /\ workers[i].kind = "request"
         /\ workers[i].pc = "start"
         /\ LET content == workers[i].content
                request == UdpAssociateHeaderRead(content)
                iv == gen_init_vec(servers[workers[i].server].method)
                datagram == <<iv, encrypt_update(RequestPlaintext(request)),
                              FinalBytes>>
            IN /\ workers' = [workers EXCEPT ![i] = NoWorker]
               /\ IF FragDropped(content)
                  THEN /\ last_ended' = Ended(workers[i], i, "dropped", <<>>)
                       /\ UNCHANGED <<client_map, bindings>>
                  ELSE IF ~request.ok
                  THEN /\ last_ended' = Ended(workers[i], i, "panicked", <<>>)
                       /\ UNCHANGED <<client_map, bindings>>
                  ELSE /\ client_map' = LruInsert(client_map, request.address,
                                                   workers[i].from)
                       /\ bindings' = Recorded(bindings, request.address,
                                                workers[i].from)
                       /\ last_ended' =
                            IF io_ok
                            THEN Ended(workers[i], i, "done",
                                       SendTo(workers[i].saddr, datagram))
                            ELSE Ended(workers[i], i, "panicked", <<>>)
    /\ UNCHANGED <<outside_udp, udp_state, server_set, server_addr, udp_rr_index,
                   received, thread_vars>>

\* The plaintext handle_response gets from a datagram: the first block_size
\* bytes are the IV, the rest is decrypted. The slice panics on a datagram
\* shorter than the IV; bytes that are no ciphertext decrypt to bytes that
\* are no address.
ResponsePlaintext(content, method) ==
    IF SumLen(content) < block_size(method)
    THEN [ok |-> FALSE, plain |-> <<>>]
    ELSE IF /\ Len(content) = 2
            /\ content[1].type = "iv"
            /\ content[1].len = block_size(method)
            /\ content[2].type = "ciphertext"
    THEN [ok |-> TRUE, plain |-> decrypt_update(content[2])]
    ELSE [ok |-> TRUE, plain |-> <<RawBytes(SumLen(content) - block_size(method))>>]

\* The datagram handle_response builds for the client:
\* UdpAssociateHeader::new(0, addr) and the rest of the plaintext.
ResponseDatagramBare(address, rest) == <<AddressBytes(address)>> \o rest

ResponseDatagram(address, rest) == UdpAssociateHeaderBytes(0, address) \o rest

\* handle_response, the thread of a datagram from a server: decrypt, parse
\* the address, cmap.get(&addr) under the mutex; a miss returns, on a hit the
\* datagram is built and sent to the client address found. A failure of the
\* cipher or of the parse before the get, or of the send after it, is an
\* unwrap or expect. Only the get touches what the threads share.
HandleResponse ==
    /\ \E i \in 1..Len(workers), cipher_ok \in BOOLEAN, send_ok \in BOOLEAN :
         /\ workers[i].kind = "response"
         /\ workers[i].pc = "start"
         /\ LET p == ResponsePlaintext(workers[i].content,
                                       servers[workers[i].server].method)
                a == AddressRead(p.plain)
                recorded == a.address \in DOMAIN bindings
                w == [workers[i] EXCEPT
                        !.bound = IF recorded THEN bindings[a.address].src
                                  ELSE NoEndpoint,
                        !.within = /\ recorded
                                   /\ Cardinality(bindings[a.address].others)
                                        < UDP_RELAY_LOCAL_LRU_CACHE_CAPACITY]
            IN /\ workers' = [workers EXCEPT ![i] = NoWorker]
               /\ IF ~cipher_ok \/ ~p.ok \/ ~a.ok
                  THEN /\ last_ended' = Ended(workers[i], i, "panicked", <<>>)
                       /\ UNCHANGED client_map
                  ELSE IF ~LruHas(client_map, a.address)
                  THEN /\ last_ended' = Ended(w, i, "missed", <<>>)
                       /\ UNCHANGED client_map
                  ELSE /\ client_map' = LruTouch(client_map, a.address)
                       /\ last_ended' =
                            IF send_ok
                            THEN Ended(w, i, "done",
                                       SendTo(LruValue(client_map, a.address),
                                              ResponseDatagram(a.address, a.rest)))
                            ELSE Ended(w, i, "panicked", <<>>)
    /\ UNCHANGED <<outside_udp, udp_state, server_set, server_addr, udp_rr_index,
                   received, bindings, thread_vars>>

NextUdp ==
    \/ UdpReceive
    \/ UdpRecvError
    \/ HandleRequest
    \/ HandleResponse

SpecUdp == InitUdp /\ [][NextUdp]_vars

----------------------------------------------------------------------------
(* handle_request and handle_response statement by statement: the threads   *)
(* of the UDP relay interleave between their statements, and the lock, the  *)
(* map operation and the drop of the MutexGuard are steps of their own.     *)
(* One server is configured and resolved.                                   *)

\* The requests the local applications send here: well-formed ones of at
\* least 4 bytes for "dst1" or "dst2", with FRAG 0 or 1.
ThreadClientDatagrams(source, n) ==
    {c \in ClientDatagrams(source, n) :
        /\ SumLen(c) >= 4
        /\ UdpAssociateHeaderRead(c).ok
        /\ UdpAssociateHeaderRead(c).address \in {"dst1", "dst2"}}

\* The responses the server sends here: an IV and a ciphertext.
ThreadServerDatagrams(n, method) ==
    {c \in ServerDatagrams(n, method) : Len(c) = 2}

\* run() up to the receive loop, with one server whose lookup succeeded.
InitThreads ==
    /\ InitUdp
    /\ total = 1
    /\ DOMAIN server_addr = {servers[1].addr}

\* One iteration of the receive loop, as in UdpReceive, for a datagram of at
\* least 4 bytes; a FRAG=0 request is noted as asked with its destination
\* and source.
ThreadSpawn ==
    /\ udp_state = "receiving"
    /\ received < MaxDatagrams
    /\ Cardinality(Running) < MaxThreads
    /\ received' = received + 1
    /\ LET n == received + 1 IN
       \/ \E source \in DOMAIN server_set :
            \E content \in ThreadServerDatagrams(n, servers[server_set[source]].method) :
              /\ workers' = Append(workers,
                    [NoWorker EXCEPT !.kind = "response", !.pc = "start",
                                     !.server = server_set[source],
                                     !.from = source, !.content = content])
              /\ UNCHANGED <<udp_rr_index, last_ended, asked>>
       \/ \E source \in UdpClients :
            \E content \in ThreadClientDatagrams(source, n) :
              LET p == PickedAtReceive(udp_rr_index, content)
                  host == servers[p.server].addr
                  request == [NoWorker EXCEPT !.kind = "request",
                                              !.server = p.server,
                                              !.from = source,
                                              !.content = content]
              IN /\ udp_rr_index' = p.index
                 /\ asked' =
                      IF ThirdByte(content) = 0
                      THEN asked \cup
                             {[dst |-> UdpAssociateHeaderRead(content).address,
                               src |-> source, n |-> n]}
                      ELSE asked
                 /\ IF host \in DOMAIN server_addr
                    THEN /\ workers' = Append(workers,
                               [request EXCEPT !.pc = "start",
                                               !.saddr = server_addr[host]])
                         /\ UNCHANGED last_ended
                    ELSE /\ workers' = Append(workers, NoWorker)
                         /\ last_ended' = Ended(request, n, "no_endpoint", <<>>)
    /\ UNCHANGED <<outside_udp, udp_state, server_set, server_addr, client_map,
                   bindings, mutex, inserted>>

\* The address a handler looks up or records: that of the request header,
\* or the one at the head of the decrypted response.
ThreadAddress(w) ==
    IF w.kind = "request"
    THEN UdpAssociateHeaderRead(w.content)
    ELSE AddressRead(ResponsePlaintext(w.content, servers[w.server].method).plain)

\* A handler up to its client_map.lock(): handle_request checks FRAG and
\* parses the header, handle_response decrypts and parses the address. The
\* FRAG check returns; a failed parse or cipher is an unwrap.
ThreadStart ==
    /\ \E i \in 1..Len(workers), cipher_ok \in BOOLEAN :
         /\ workers[i].pc = "start"
         /\ LET w == workers[i]
                failed ==
                    IF w.kind = "request"
                    THEN ~ThreadAddress(w).ok
                    ELSE \/ ~cipher_ok
                         \/ ~ResponsePlaintext(w.content, servers[w.server].method).ok
                         \/ ~ThreadAddress(w).ok
            IN IF w.kind = "request" /\ FragDropped(w.content)
               THEN /\ workers' = [workers EXCEPT ![i] = NoWorker]
                    /\ last_ended' = Ended(w, i, "dropped", <<>>)
               ELSE IF failed
               THEN /\ workers' = [workers EXCEPT ![i] = NoWorker]
                    /\ last_ended' = Ended(w, i, "panicked", <<>>)
               ELSE /\ workers' = [workers EXCEPT ![i].pc = "lock"]
                    /\ UNCHANGED last_ended
    /\ UNCHANGED <<outside_udp, udp_state, server_set, server_addr, udp_rr_index,
                   client_map, received, bindings, thread_vars>>

\* client_map.lock().unwrap(): the thread gets the mutex when no thread
\* holds it. No thread panics while it holds the mutex, so the lock is never
\* poisoned and the unwrap does not fail.
ThreadLock ==
    /\ \E i \in 1..Len(workers) :
         /\ workers[i].pc = "lock"
         /\ mutex.holder = 0
         /\ mutex' = [holder |-> i, ops |-> 0]
         /\ workers' = [workers EXCEPT ![i].pc = "locked"]
    /\ UNCHANGED <<outside_udp, udp_state, server_set, server_addr, udp_rr_index,
                   client_map, received, last_ended, bindings, asked, inserted>>

\* Where a handler goes after its insert or get: the guard keeps the mutex
\* to the end of the handler.
AfterMapOpHeld(kind) == "send"

\* Where a handler goes after its insert or get: the MutexGuard is a
\* temporary of the insert statement in handle_request and a local of the
\* block around get in handle_response, so it is dropped next.
AfterMapOp(kind) == "unlock"

\* .insert(addr, from_addr) on the locked map, in handle_request.
ThreadInsert ==
    /\ \E i \in 1..Len(workers) :
         /\ workers[i].kind = "request"
         /\ workers[i].pc = "locked"
         /\ mutex.holder = i
         /\ LET a == ThreadAddress(workers[i])
            IN /\ client_map' = LruInsert(client_map, a.address, workers[i].from)
               /\ bindings' = Recorded(bindings, a.address, workers[i].from)
         /\ inserted' = inserted \cup {i}
         /\ mutex' = [mutex EXCEPT !.ops = @ + 1]
         /\ workers' = [workers EXCEPT ![i].pc = AfterMapOp("request")]
    /\ UNCHANGED <<outside_udp, udp_state, server_set, server_addr, udp_rr_index,
                   received, last_ended, asked>>

\* cmap.get(&addr) on the locked map, in handle_response: Some(a) gives the
\* client address, None makes the handler return.
ThreadGet ==
    /\ \E i \in 1..Len(workers) :
         /\ workers[i].kind = "response"
         /\ workers[i].pc = "locked"
         /\ mutex.holder = i
         /\ LET a == ThreadAddress(workers[i])
            IN IF LruHas(client_map, a.address)
               THEN /\ client_map' = LruTouch(client_map, a.address)
                    /\ workers' = [workers EXCEPT
                          ![i].pc = AfterMapOp("response"),
                          ![i].bound = LruValue(client_map, a.address)]
               ELSE /\ UNCHANGED client_map
                    /\ workers' = [workers EXCEPT
                          ![i].pc = AfterMapOp("response"),
                          ![i].bound = NoEndpoint]
         /\ mutex' = [mutex EXCEPT !.ops = @ + 1]
    /\ UNCHANGED <<outside_udp, udp_state, server_set, server_addr, udp_rr_index,
                   received, last_ended, bindings, asked, inserted>>

\* The MutexGuard is dropped: the mutex is free again.
ThreadUnlock ==
    /\ \E i \in 1..Len(workers) :
         /\ workers[i].pc = "unlock"
         /\ mutex.holder = i
         /\ mutex' = NoLock
         /\ workers' = [workers EXCEPT ![i].pc = "send"]
    /\ UNCHANGED <<outside_udp, udp_state, server_set, server_addr, udp_rr_index,
                   client_map, received, last_ended, bindings, asked, inserted>>

\* The rest of a handler: handle_response returns when get gave None;
\* otherwise the datagram is built (encrypted, for a request) and sent with
\* socket.send_to, a failure being an unwrap or expect. The thread ends and
\* drops what it still holds.
ThreadFinish ==
    /\ \E i \in 1..Len(workers), io_ok \in BOOLEAN :
         /\ workers[i].pc = "send"
         /\ LET w == workers[i]
                a == ThreadAddress(w)
                iv == gen_init_vec(servers[w.server].method)
                out == IF w.kind = "request"
                       THEN SendTo(w.saddr,
                                   <<iv, encrypt_update(RequestPlaintext(a)),
                                     FinalBytes>>)
                       ELSE SendTo(w.bound, ResponseDatagram(a.address, a.rest))
            IN last_ended' =
                 IF w.kind = "response" /\ w.bound = NoEndpoint
                 THEN Ended(w, i, "missed", <<>>)
                 ELSE IF io_ok
                 THEN Ended(w, i, "done", out)
                 ELSE Ended(w, i, "panicked", <<>>)
         /\ workers' = [workers EXCEPT ![i] = NoWorker]
         /\ mutex' = IF mutex.holder = i THEN NoLock ELSE mutex
    /\ UNCHANGED <<outside_udp, udp_state, server_set, server_addr, udp_rr_index,
                   client_map, received, bindings, asked, inserted>>

NextThreads ==
    \/ ThreadSpawn
    \/ UdpRecvError
    \/ ThreadStart
    \/ ThreadLock
    \/ ThreadInsert
    \/ ThreadGet
    \/ ThreadUnlock
    \/ ThreadFinish

SpecThreads == InitThreads /\ [][NextThreads]_vars

----------------------------------------------------------------------------
(* crypto/cipher.rs: bytes_to_key, gen_init_vec, with_type and the Cipher    *)
(* trait.  Digests and ciphertexts are symbolic: byte i of MD5(x) is the     *)
(* record [md5 |-> x, at |-> i], and a cipher's output byte records the      *)
(* input byte, the cipher's parameters and the position in the stream, so    *)
(* that two byte strings are equal only if they were computed the same way.  *)

\* What a step on the cipher functions leaves alone.
outside_cipher == <<session_vars, writer_vars, run_vars, udp_vars, stream_vars>>

\* DigestType::Md5.digest_len().
digest_len == 16

\* digest::with_type(DigestType::Md5), update(input), digest().
Md5(input) == [i \in 1..digest_len |-> [md5 |-> input, at |-> i]]

\* The digest pushed by one turn of the loop of bytes_to_key_unchained.
NextDigestUnchained(m, key) == Md5(key)

\* The digest pushed by one turn of the loop of bytes_to_key: MD5 of the key
\* alone at first, then of the previous digest followed by the key.
NextDigest(m, key) ==
    IF Len(m) > 0 THEN Md5(m[Len(m)] \o key) ELSE Md5(key)

RECURSIVE Md5Chain(_, _, _)
\* The while loop of bytes_to_key: digests are pushed on m until they hold
\* at least need bytes.
Md5Chain(m, key, need) ==
    IF Len(m) * digest_len < need
    THEN Md5Chain(Append(m, NextDigest(m, key)), key, need)
    ELSE m

RECURSIVE Whole(_)
\* m.into_iter().fold(..): the digests one after the other.
Whole(m) == IF m = <<>> THEN <<>> ELSE Head(m) \o Whole(Tail(m))

\* CipherType::bytes_to_key: digests for key_len + iv_len bytes are
\* computed, the first key_len bytes are the key.
bytes_to_key(t, key) ==
    LET iv_len == block_size(t)
        key_len == key_size(t)
        m == Md5Chain(<<>>, key, key_len + iv_len)
    IN SubSeq(Whole(m), 1, key_len)

\* CipherType::gen_init_vec: block_size() bytes of the random generator.
RandomInitVecs(t) ==
    {[i \in 1..block_size(t) |-> [rand |-> r, at |-> i]] : r \in Seeds}

\* with_type building an encryptor whatever the mode asked for.
with_type_encrypt(t, key, iv, mode) ==
    CASE t = "Table" ->
           [engine |-> "table", t |-> t, key |-> key, iv |-> <<>>,
            mode |-> "Encrypt", at |-> 0, finalized |-> 0]
      [] t = "Rc4Md5" ->
           [engine |-> "rc4_md5", t |-> t, key |-> key, iv |-> iv,
            mode |-> "Encrypt", at |-> 0, finalized |-> 0]
      [] OTHER ->
           [engine |-> "openssl", t |-> t, key |-> key, iv |-> iv,
            mode |-> "Encrypt", at |-> 0, finalized |-> 0]

\* cipher::with_type: the table cipher takes the key and the mode only, the
\* others the key, the IV and the mode.
with_type(t, key, iv, mode) ==
    CASE t = "Table" ->
           [engine |-> "table", t |-> t, key |-> key, iv |-> <<>>,
            mode |-> mode, at |-> 0, finalized |-> 0]
      [] t = "Rc4Md5" ->
           [engine |-> "rc4_md5", t |-> t, key |-> key, iv |-> iv,
            mode |-> mode, at |-> 0, finalized |-> 0]
      [] OTHER ->
           [engine |-> "openssl", t |-> t, key |-> key, iv |-> iv,
            mode |-> mode, at |-> 0, finalized |-> 0]

\* One byte through a cipher, n bytes into its stream.  The table cipher is
\* a substitution, the same at every position; the others are stream
\* transforms.  A decryptor gives back the byte an encryptor of the same
\* engine, method, key, IV and position was given.
Transform(c, b, n) ==
    LET at == IF c.engine = "table" THEN 0 ELSE n
    IN IF c.mode = "Encrypt"
       THEN [ct |-> b, engine |-> c.engine, t |-> c.t, key |-> c.key,
             iv |-> c.iv, at |-> at]
       ELSE IF /\ "ct" \in DOMAIN b
               /\ b.engine = c.engine
               /\ b.t = c.t
               /\ b.key = c.key
               /\ b.iv = c.iv
               /\ b.at = at
            THEN b.ct
            ELSE [garbled |-> b, at |-> at]

\* Cipher::update when it succeeds: as many bytes out as in.
update(c, data) ==
    [out |-> [i \in 1..Len(data) |-> Transform(c, data[i], c.at + i)],
     cipher |-> [c EXCEPT !.at = @ + Len(data)]]

\* Cipher::finalize when it succeeds: the tail of a stream cipher is empty.
finalize(c) == [out |-> <<>>, cipher |-> [c EXCEPT !.finalized = @ + 1]]

\* A method and a password, nothing computed yet.
InitCipher ==
    /\ SessionIdle
    /\ WriterIdle
    /\ RunIdle
    /\ UdpIdle
    /\ StreamIdle
    /\ ct_pc = "start"
    /\ ct_method \in RecognizedCipherTypes
    /\ ct_password \in BytesUpTo(MaxPasswordLen)
    /\ ct_key = <<>>
    /\ ct_iv = <<>>
    /\ ct_encryptor = NoCipher
    /\ ct_decryptor = NoCipher
    /\ ct_message = <<>>
    /\ ct_encrypted = <<>>
    /\ ct_decrypted = <<>>

\* let key = t.bytes_to_key(password).
BytesToKey ==
    /\ ct_pc = "start"
    /\ ct_pc' = "keyed"
    /\ ct_key' = bytes_to_key(ct_method, ct_password)
    /\ UNCHANGED <<outside_cipher, ct_method, ct_password, ct_iv, ct_encryptor,
                   ct_decryptor, ct_message, ct_encrypted, ct_decrypted>>

\* An encryptor and a decryptor built by with_type from the key, each with
\* an IV of gen_init_vec: the same one or not.
WithType ==
    /\ ct_pc = "keyed"
    /\ ct_pc' = "ready"
    /\ \E iv_e \in RandomInitVecs(ct_method), iv_d \in RandomInitVecs(ct_method) :
         /\ ct_iv' = [enc |-> iv_e, dec |-> iv_d]
         /\ ct_encryptor' = with_type(ct_method, ct_key, iv_e, "Encrypt")
         /\ ct_decryptor' = with_type(ct_method, ct_key, iv_d, "Decrypt")
    /\ UNCHANGED <<outside_cipher, ct_method, ct_password, ct_key, ct_message,
                   ct_encrypted, ct_decrypted>>

\* encryptor.update(message), then decryptor.update of what it returned.
CipherUpdate ==
    /\ ct_pc = "ready"
    /\ \E message \in BytesUpTo(MaxChunkLen) :
         LET e == update(ct_encryptor, message)
             d == update(ct_decryptor, e.out)
         IN /\ Len(ct_message) + Len(message) <= MaxMessageLen
            /\ ct_message' = ct_message \o message
            /\ ct_encrypted' = ct_encrypted \o e.out
            /\ ct_decrypted' = ct_decrypted \o d.out
            /\ ct_encryptor' = e.cipher
            /\ ct_decryptor' = d.cipher
    /\ UNCHANGED <<outside_cipher, ct_pc, ct_method, ct_password, ct_key, ct_iv>>

\* decryptor.finalize() and encryptor.finalize().
CipherFinalize ==
    /\ ct_pc = "ready"
    /\ ct_pc' = "finalized"
    /\ ct_encrypted' = ct_encrypted \o finalize(ct_encryptor).out
    /\ ct_decrypted' = ct_decrypted \o finalize(ct_decryptor).out
    /\ ct_encryptor' = finalize(ct_encryptor).cipher
    /\ ct_decryptor' = finalize(ct_decryptor).cipher
    /\ UNCHANGED <<outside_cipher, ct_method, ct_password, ct_key, ct_iv,
                   ct_message>>

NextCipher ==
    \/ BytesToKey
    \/ WithType
    \/ CipherUpdate
    \/ CipherFinalize

SpecCipher == InitCipher /\ [][NextCipher]_vars

----------------------------------------------------------------------------
(* stream.rs: an EncryptedWriter feeding a DecryptedReader.  The writer's    *)
(* underlying writer and the reader's underlying reader are the two ends of  *)
(* one byte stream; the reader's end returns EndOfFile once the writer is    *)
(* gone and every byte was read.                                             *)

\* What a step of the stream pair leaves alone.
outside_stream == <<session_vars, writer_vars, run_vars, udp_vars, cipher_vars>>

\* The methods of the stream pair: the substitution table and a stream
\* transform.
StreamCipherTypes == {"Table", "BfCfb"}

\* What a cipher's finalize can append to its output: nothing for the stream
\* ciphers, a last block for a cipher that buffers.  Only a reader at the
\* end of its buffer and of its stream calls finalize.
FinalTails ==
    IF dr_pos = Len(dr_buffer) /\ pipe = <<>> /\ pw_state = "dropped" /\ ~dr_sent_final
    THEN {<<>>, <<[tail |-> 1]>>}
    ELSE {<<>>}

\* Whether the cipher call of a fill_buf succeeds.  Only a reader at the end
\* of its buffer calls its cipher.
CipherOutcomes == IF dr_pos = Len(dr_buffer) THEN BOOLEAN ELSE {TRUE}

Min(a, b) == IF a < b THEN a ELSE b

\* The IoError made of a cipher error, with the kind of the reader's error.
CipherIoErrorAsRead(err) ==
    [kind |-> "EndOfFile", desc |-> err.desc, detail |-> err.detail]

\* IoError { kind: OtherIoError, desc: err.desc, detail: err.detail }.
CipherIoError(err) ==
    [kind |-> "OtherIoError", desc |-> err.desc, detail |-> err.detail]

\* The error of a cipher call that fails.
CipherError(call) == [desc |-> "cipher error", detail |-> call]

\* The whole buffer, whatever was consumed.
AvailableFromStart(buffer, pos) == buffer

\* &self.buffer[self.pos..self.buffer.len()].
Available(buffer, pos) == SubSeq(buffer, pos + 1, Len(buffer))

\* EncryptedWriter::new and DecryptedReader::new over the two ends of an
\* empty stream, their ciphers built with the same method, key and IV.
InitStream ==
    /\ SessionIdle
    /\ WriterIdle
    /\ RunIdle
    /\ UdpIdle
    /\ CipherIdle
    /\ \E t \in StreamCipherTypes :
         LET key == <<[byte |-> 1]>>
             iv == CHOOSE v \in RandomInitVecs(t) : TRUE
         IN /\ pw_cipher = with_type(t, key, iv, "Encrypt")
            /\ dr_cipher = with_type(t, key, iv, "Decrypt")
    /\ pw_state = "live"
    /\ pw_plain = <<>>
    /\ pipe = <<>>
    /\ dr_buffer = <<>>
    /\ dr_pos = 0
    /\ dr_sent_final = FALSE
    /\ dr_out = <<>>
    /\ dr_calls = 0
    /\ dr_last = NoCall
    /\ dr_state = "live"
    /\ dr_eof = FALSE
    /\ dr_irregular = FALSE

\* The k bytes the writer's owner writes after the n bytes written so far:
\* the owner's plaintext is 1, 0, 1, 0, ...
NextPlain(n, k) == [i \in 1..k |-> [byte |-> (n + i) % 2]]

\* Writer::write of EncryptedWriter: cipher.update(buf), whose error is
\* returned as an IoError, then writer.write of what update returned.
PwWrite ==
    /\ pw_state = "live"
    /\ \E k \in 0..MaxChunkLen, cipher_ok \in BOOLEAN, write_ok \in BOOLEAN :
         LET buf == NextPlain(Len(pw_plain), k)
             u == update(pw_cipher, buf)
         IN /\ pw_cipher.at + Len(buf) <= MaxMessageLen
            /\ IF ~cipher_ok
               THEN /\ dr_last' = [call |-> "write",
                                   result |-> CipherIoError(CipherError("update")),
                                   reader |-> "none", cipher |-> "err"]
                    /\ dr_irregular' = TRUE
                    /\ UNCHANGED <<pw_cipher, pipe, pw_plain>>
               ELSE IF ~write_ok
               THEN /\ dr_last' = [call |-> "write", result |-> [kind |-> "BrokenPipe"],
                                   reader |-> "none", cipher |-> "ok"]
                    /\ pw_cipher' = u.cipher
                    /\ dr_irregular' = TRUE
                    /\ UNCHANGED <<pipe, pw_plain>>
               ELSE /\ dr_last' = [call |-> "write", result |-> [kind |-> "ok"],
                                   reader |-> "none", cipher |-> "ok"]
                    /\ pw_cipher' = u.cipher
                    /\ pipe' = pipe \o u.out
                    /\ pw_plain' = pw_plain \o buf
                    /\ UNCHANGED dr_irregular
    /\ UNCHANGED <<outside_stream, pw_state, dr_buffer, dr_cipher, dr_pos,
                   dr_sent_final, dr_out, dr_calls, dr_state, dr_eof>>

\* Drop for EncryptedWriter: self.finalize().unwrap(); the cipher's tail is
\* written and the writer's end of the stream is closed.
PwDrop ==
    /\ pw_state = "live"
    /\ pw_state' = "dropped"
    /\ \E cipher_ok \in BOOLEAN :
         IF cipher_ok
         THEN /\ pw_cipher' = finalize(pw_cipher).cipher
              /\ pipe' = pipe \o finalize(pw_cipher).out
              /\ dr_last' = [call |-> "drop", result |-> [kind |-> "ok"],
                             reader |-> "none", cipher |-> "ok"]
         ELSE /\ dr_last' = [call |-> "drop", result |-> [kind |-> "panic"],
                             reader |-> "none", cipher |-> "err"]
              /\ UNCHANGED <<pw_cipher, pipe>>
    /\ UNCHANGED <<outside_stream, pw_plain, dr_buffer, dr_cipher, dr_pos,
                   dr_sent_final, dr_out, dr_calls, dr_state, dr_eof, dr_irregular>>

\* What self.reader.read(&mut incoming) can return: up to BUFFER_SIZE of the
\* bytes in the stream, EndOfFile once the writer is gone and the stream is
\* empty, or another error at any time.
ReaderOutcomes ==
    {[kind |-> "ok", l |-> l] : l \in 1..Min(BUFFER_SIZE, Len(pipe))}
      \cup (IF pipe = <<>> /\ pw_state = "dropped"
            THEN {[kind |-> "EndOfFile", l |-> 0]} ELSE {})
      \cup {[kind |-> "TimedOut", l |-> 0]}

\* The reader as a call leaves it when nothing happens.
ReaderNow ==
    [buffer |-> dr_buffer, pos |-> dr_pos, sent_final |-> dr_sent_final,
     cipher |-> dr_cipher, pipe |-> pipe, irregular |-> dr_irregular,
     result |-> [kind |-> "ok"], reader |-> "none", called |-> "none",
     failed |-> FALSE, available |-> <<>>]

\* The last line of fill_buf: Ok of the slice of the buffer from pos, which
\* panics when pos is beyond the buffer's length.
Slice(st) ==
    IF st.pos <= Len(st.buffer)
    THEN [st EXCEPT !.result = [kind |-> "ok"],
                    !.available = Available(st.buffer, st.pos)]
    ELSE [st EXCEPT !.result = [kind |-> "panic"]]

\* Buffer::fill_buf of DecryptedReader for an outcome r of the underlying
\* read, a cipher that succeeds or not, and the tail its finalize returns.
\* With bytes left in the buffer nothing is read.  Otherwise the bytes read
\* go through cipher.update and replace the buffer; on EndOfFile the cipher
\* is finalized, once, and its tail replaces the buffer, EndOfFile being
\* returned when the tail is empty; any error returns before pos is reset.
FillBuf(r, cipher_ok, tail) ==
    IF dr_pos # Len(dr_buffer)
    THEN Slice(ReaderNow)
    ELSE LET st == [ReaderNow EXCEPT !.reader = r.kind] IN
         CASE r.kind = "ok" ->
                LET u == update(dr_cipher, SubSeq(pipe, 1, r.l))
                    read == [st EXCEPT !.pipe = SubSeq(pipe, r.l + 1, Len(pipe)),
                                       !.called = "update"]
                IN IF cipher_ok /\ dr_cipher.finalized = 0
                   THEN Slice([read EXCEPT !.buffer = u.out, !.cipher = u.cipher,
                                           !.pos = 0])
                   ELSE [read EXCEPT !.result = CipherIoError(CipherError("update")),
                                     !.failed = TRUE,
                                     !.irregular = TRUE]
           [] r.kind = "EndOfFile" ->
                IF dr_sent_final
                THEN [st EXCEPT !.result = [kind |-> "EndOfFile"]]
                ELSE LET f == finalize(dr_cipher)
                         final == [st EXCEPT !.sent_final = TRUE,
                                             !.called = "finalize"]
                     IN IF ~cipher_ok
                        THEN [final EXCEPT
                                !.result = CipherIoError(CipherError("finalize")),
                                !.failed = TRUE,
                                !.irregular = TRUE]
                        ELSE IF Len(f.out \o tail) = 0
                        THEN [final EXCEPT !.buffer = f.out \o tail,
                                           !.cipher = f.cipher,
                                           !.result = [kind |-> "EndOfFile"]]
                        ELSE Slice([final EXCEPT !.buffer = f.out \o tail,
                                                 !.cipher = f.cipher,
                                                 !.pos = 0,
                                                 !.irregular = TRUE])
           [] OTHER -> [st EXCEPT !.result = [kind |-> r.kind]]

\* What a call that ran fill_buf leaves behind, apart from pos and dr_out.
AfterFillBuf(st, call) ==
    /\ dr_buffer' = st.buffer
    /\ dr_sent_final' = st.sent_final
    /\ dr_cipher' = st.cipher
    /\ pipe' = st.pipe
    /\ dr_irregular' = st.irregular
    /\ dr_calls' = dr_calls + 1
    /\ dr_last' = [call |-> call, result |-> st.result, reader |-> st.reader,
                    cipher |-> IF st.called = "none" THEN "none"
                               ELSE IF st.failed THEN "err"
                               ELSE "ok"]
    /\ dr_state' = IF st.result.kind = "panic" THEN "panicked" ELSE "live"
    /\ dr_eof' = (dr_eof \/ st.result.kind = "EndOfFile")

\* A call of fill_buf by the reader's owner.
DrFillBuf ==
    /\ dr_state = "live"
    /\ dr_calls < MaxReaderCalls
    /\ \E r \in ReaderOutcomes, cipher_ok \in CipherOutcomes, tail \in FinalTails :
         LET st == FillBuf(r, cipher_ok, tail)
         IN /\ AfterFillBuf(st, "fill_buf")
            /\ dr_pos' = st.pos
    /\ UNCHANGED <<outside_stream, pw_state, pw_cipher, pw_plain, dr_out>>

\* Buffer::consume of DecryptedReader, for an amount within what fill_buf
\* made available: pos += amt, then the assertion pos <= buffer.len().
DrConsume ==
    /\ dr_state = "live"
    /\ dr_calls < MaxReaderCalls
    /\ \E amt \in 0..(IF dr_pos <= Len(dr_buffer) THEN Len(dr_buffer) - dr_pos ELSE 0) :
         /\ dr_pos' = dr_pos + amt
         /\ dr_out' = dr_out \o SubSeq(dr_buffer, dr_pos + 1, dr_pos + amt)
         /\ dr_state' = IF dr_pos + amt <= Len(dr_buffer) THEN "live" ELSE "panicked"
         /\ dr_last' = [call |-> "consume",
                        result |-> [kind |-> IF dr_pos + amt <= Len(dr_buffer)
                                             THEN "ok" ELSE "panic"],
                        reader |-> "none", cipher |-> "none"]
    /\ dr_calls' = dr_calls + 1
    /\ UNCHANGED <<outside_stream, pw_state, pw_cipher, pw_plain, pipe, dr_buffer,
                   dr_cipher, dr_sent_final, dr_eof, dr_irregular>>

\* Reader::read of DecryptedReader into a buffer of n bytes: try!(fill_buf()),
\* then the first min(available, n) bytes are copied and pos moves past them.
DrRead ==
    /\ dr_state = "live"
    /\ dr_calls < MaxReaderCalls
    /\ \E n \in 0..MaxBufLen :
       \E r \in ReaderOutcomes, cipher_ok \in CipherOutcomes, tail \in FinalTails :
         LET st == FillBuf(r, cipher_ok, tail)
             nread == Min(Len(st.available), n)
         IN /\ AfterFillBuf(st, "read")
            /\ IF st.result.kind = "ok"
               THEN /\ dr_out' = dr_out \o SubSeq(st.available, 1, nread)
                    /\ dr_pos' = st.pos + nread
               ELSE /\ dr_pos' = st.pos
                    /\ UNCHANGED dr_out
    /\ UNCHANGED <<outside_stream, pw_state, pw_cipher, pw_plain>>

NextStream ==
    \/ PwWrite
    \/ PwDrop
    \/ DrFillBuf
    \/ DrConsume
    \/ DrRead

SpecStream == InitStream /\ [][NextStream]_vars

----------------------------------------------------------------------------
(* Properties *)

\* The TcpResponseHeaders written to C, in order.
Replies == SelectSeq(local_wire, LAMBDA m : m.type = "TcpResponseHeader")

\* What was written to S, without the tails written by finalize.
RemoteBytes == SelectSeq(remote_wire, LAMBDA m : m.type # "final")

\* A socket half is shut once close_read / close_write was called on it or
\* the last handle on the socket was dropped.
ReadIsShut(refs, shut) == shut.read \/ refs = 0

WriteIsShut(refs, shut) == shut.write \/ refs = 0

\* C1: in a CONNECT session S receives, in this order, the IV (block_size
\* bytes, in the clear, once), the encryption of the requested destination
\* address, then encryptions of local payload; the address is the first thing
\* given to the encryptor, whatever the interleaving of the two threads.
C1_RemoteWireOrder ==
    /\ \A i \in 1..Len(RemoteBytes) :
         /\ (i = 1) <=> (RemoteBytes[i].type = "iv")
         /\ i = 1 => RemoteBytes[i].len = block_size(encrypt_method)
         /\ i = 2 => RemoteBytes[i] = [type |-> "ciphertext",
                                       of |-> AddressBytes(header.address)]
         /\ i >= 3 => /\ RemoteBytes[i].type = "ciphertext"
                      /\ RemoteBytes[i].of.type = "data"
    /\ \A i \in 1..Len(enc_input) :
         IF i = 1 THEN enc_input[i] = AddressBytes(header.address)
                  ELSE enc_input[i].type = "data"
    /\ l2r_pc # "none" => Len(RemoteBytes) >= 2

C1_Witness ==
    /\ Len(RemoteBytes) >= 3
    /\ RemoteBytes[3].of.type = "data"
    /\ pc = "r2l_copy"
    /\ r2l_count > 0

\* C2: in a CONNECT session the Succeeded reply is the first thing written to
\* C after the handshake response: it is on the wire (flushed) before the
\* local-to-remote thread exists and before any decrypted payload.
C2_SucceededReplyFirst ==
    header.command = "TcpConnect" =>
      /\ l2r_pc # "none" =>
           /\ Len(local_wire) >= 2
           /\ local_wire[2] = [type |-> "TcpResponseHeader", reply |-> "Succeeded",
                               address |-> SockName]
           /\ buffered_out = <<>>
      /\ \A i \in 1..Len(local_wire) :
           /\ i = 1 => local_wire[i] = [type |-> "HandshakeResponse", method |-> 0]
           /\ local_wire[i].type = "data" =>
                /\ i >= 3
                /\ local_wire[2].type = "TcpResponseHeader"
                /\ local_wire[2].reply = "Succeeded"

C2_Witness ==
    /\ header.command = "TcpConnect"
    /\ Len(local_wire) >= 3
    /\ local_wire[3].type = "data"
    /\ l2r_pc = "copy"

\* C3: when a copy direction has completed, by end-of-file or by error, read
\* on its source socket and write on the peer socket are shut down.
C3_ShutdownOnCompletion ==
    /\ l2r_pc \in {"done", "panicked"} =>
         /\ ReadIsShut(stream_refs, local_shut)
         /\ WriteIsShut(remote_refs, remote_shut)
    /\ (pc = "returned" /\ r2l_result \in {"ok", "err"}) =>
         /\ ReadIsShut(remote_refs, remote_shut)
         /\ WriteIsShut(stream_refs, local_shut)

\* C4: when one direction has ended and the other is still copying, exactly
\* the ended direction's halves are shut (read on its source, write on the
\* peer) and the halves of the other direction are open; in particular after
\* the remote-to-local direction ended, read on S and write on C are shut and
\* write on S and read on C are open.
C4_HalfCloseKeepsOtherDirection ==
    /\ (pc = "returned" /\ r2l_result \in {"ok", "err"} /\ l2r_pc = "copy") =>
         /\ remote_shut.read /\ local_shut.write
         /\ ~remote_shut.write /\ ~local_shut.read
    /\ (l2r_pc \in {"done", "panicked"} /\ pc = "r2l_copy") =>
         /\ local_shut.read /\ remote_shut.write
         /\ ~local_shut.write /\ ~remote_shut.read

\* C5: after a short read of the remote IV both sockets are closed, so the
\* local-to-remote thread cannot keep relaying.
C5_ShortIvTearsDown ==
    iv_short => (stream_refs = 0 /\ remote_refs = 0 /\ l2r_pc # "copy")

\* C6: a session that ended on a protocol error of the TcpRequestHeader has
\* written a TcpResponseHeader with the error's reply code to C.
C6_HeaderErrorReplied ==
    (pc = "returned" /\ header_err.kind = "protocol") =>
      \E i \in 1..Len(Replies) : Replies[i].reply = header_err.reply

\* C7: a HandshakeRequest without method 0x00 is answered 05 FF and ends the
\* session: no request header is read, nothing else is written, no dial.
C7_NoAcceptableMethod ==
    (req_methods # Unread /\ 0 \notin req_methods) =>
      /\ pc = "returned"
      /\ stream_refs = 0
      /\ header = NoHeader /\ header_err = NoError
      /\ dialed = 0 /\ remote_refs = 0 /\ remote_wire = <<>>
      /\ local_wire \in {<<>>, <<[type |-> "HandshakeResponse", method |-> 255]>>}
      /\ ~io_error => local_wire # <<>>

C7_Witness ==
    /\ req_methods = {1}
    /\ local_wire = <<[type |-> "HandshakeResponse", method |-> 255]>>
    /\ pc = "returned"

\* The sessions the relay rejects: BIND, and UDP ASSOCIATE with UDP disabled.
RejectedCommand ==
    \/ header.command = "TcpBind"
    \/ header.command = "UdpAssociate" /\ ~(feature_enable_udp /\ enable_udp)

\* C8: for BIND, and for UDP ASSOCIATE with UDP disabled, the only
\* TcpResponseHeader written is CommandNotSupported with the requested
\* address (exactly one when no operation on C failed); the session ends
\* with no dial and no cipher.
C8_RejectCommandNotSupported ==
    RejectedCommand =>
      /\ dialed = 0 /\ remote_refs = 0 /\ remote_wire = <<>>
      /\ encryptor = "none" /\ decryptor = "none" /\ l2r_pc = "none"
      /\ Len(Replies) <= 1
      /\ Len(Replies) = 1 =>
           Replies[1] = [type |-> "TcpResponseHeader", reply |-> "CommandNotSupported",
                         address |-> header.address]
      /\ pc \in {"dispatch", "returned", "panicked"}
      /\ pc # "dispatch" => stream_refs = 0
      /\ (pc = "returned" /\ ~io_error) => Len(Replies) = 1

C8_Witness ==
    /\ header.command = "UdpAssociate"
    /\ enable_udp /\ ~feature_enable_udp
    /\ pc = "returned"
    /\ Len(Replies) = 1
    /\ Replies[1].address = "dst2"

\* C9: for UDP ASSOCIATE with UDP enabled the only TcpResponseHeader written
\* is Succeeded carrying the socket name of the accepted stream, not the
\* peer's address and not the requested address.
C9_UdpAssociateReply ==
    (header.command = "UdpAssociate" /\ feature_enable_udp /\ enable_udp) =>
      /\ Len(Replies) <= 1
      /\ Len(Replies) = 1 =>
           /\ Replies[1] = [type |-> "TcpResponseHeader", reply |-> "Succeeded",
                            address |-> SockName]
           /\ Replies[1].address \notin {PeerName, header.address}
      /\ (pc = "returned" /\ ~io_error) => Len(Replies) = 1

C9_Witness ==
    /\ header.command = "UdpAssociate"
    /\ feature_enable_udp /\ enable_udp
    /\ pc = "returned"
    /\ Len(Replies) = 1

\* C10: once the Succeeded reply of a UDP ASSOCIATE is written the relay
\* keeps C open.
C10_UdpAssociateKeepsOpen ==
    (header.command = "UdpAssociate" /\ Len(Replies) = 1
       /\ Replies[1].reply = "Succeeded") => stream_refs > 0

\* C11: when the dial for CONNECT fails, the only reply written is
\* HostUnreachable for the kinds ConnectionRefused, ConnectionReset,
\* ConnectionAborted and ConnectionFailed and NetworkUnreachable for every
\* other kind; the session then ends without any handle on C, without a
\* Succeeded reply, without an IV generated or sent and without a copy thread.
C11_DialFailureReply ==
    connect_err # "none" =>
      /\ pc \in {"returned", "panicked"}
      /\ stream_refs = 0
      /\ Len(Replies) <= 1
      /\ \A i \in 1..Len(Replies) :
           /\ Replies[i].reply =
                IF connect_err \in {"ConnectionRefused", "ConnectionReset",
                                    "ConnectionAborted", "ConnectionFailed"}
                THEN "HostUnreachable"
                ELSE "NetworkUnreachable"
           /\ Replies[i].reply # "Succeeded"
      /\ pc = "returned" => Len(Replies) = 1
      /\ encryptor = "none" /\ decryptor = "none"
      /\ remote_wire = <<>>
      /\ remote_refs = 0
      /\ l2r_pc = "none"

C11_Witness ==
    /\ connect_err = "ConnectionFailed"
    /\ pc = "returned"
    /\ Len(Replies) = 1
    /\ Replies[1].reply = "HostUnreachable"

\* C12: in a session the encrypt cipher is finalized once the writer's owner
\* has ended, on every path; and over the whole lifetime of a writer (any
\* write and finalize calls, then the drop) cipher.finalize() is called
\* exactly once and cipher.update() never after it.
C12_FinalizeExactlyOnce ==
    /\ (encryptor # "none" /\ pc \in {"returned", "panicked"}
          /\ l2r_pc \in {"none", "done", "panicked"}) => encryptor = "finalized"
    /\ ew_finalized <= 1
    /\ ~ew_update_after
    /\ ew_state = "dropped" => ew_finalized = 1

\* The tries of the latest accept all failed to resolve.
AllTriesFailed(a) == \A i \in 1..Len(a.tried) : Failed(a.tried[i].outcome)

\* C13: an accept tries at most total() servers, in balancer order, advancing
\* the balancer once per try; every try before the last failed to resolve
\* (lookup error or empty list); when the last try resolved, exactly one
\* worker was spawned, for that server; run() has aborted iff all total()
\* servers failed to resolve in the latest accept.
C13_AcceptTriesServers ==
    accepted > 0 =>
      LET a == last_accept
          n == Len(a.tried)
      IN /\ n \in 1..total
         /\ \A i \in 1..n : a.tried[i].server = ((a.start + i - 1) % total) + 1
         /\ rr_index = (a.start + n) % total
         /\ \A i \in 1..(n - 1) : Failed(a.tried[i].outcome)
         /\ ~Failed(a.tried[n].outcome) =>
              /\ a.spawned = 1
              /\ conns[Len(conns)].server = a.tried[n].server
              /\ servers[a.tried[n].server].addr \in DOMAIN cached_proxy
         /\ Failed(a.tried[n].outcome) => (a.spawned = 0 /\ n = total)
         /\ Len(conns) = accepted - (IF a.spawned = 1 THEN 0 ELSE 1)
         /\ relay_state = "aborted" <=> (n = total /\ AllTriesFailed(a))

C13_Witness ==
    /\ total = 3
    /\ accepted = 2
    /\ Len(last_accept.tried) = 2
    /\ last_accept.tried[1].outcome = "empty"
    /\ last_accept.tried[2].outcome = "resolved"
    /\ last_accept.spawned = 1
    /\ relay_state = "accepting"

\* Every lookup of every accept so far found its server resolved.
EveryServerResolves == Len(picks) = accepted /\ Len(conns) = accepted

\* C14: any total() consecutive pick_server() calls return every server
\* exactly once; and when every server resolves, the k-th accepted connection
\* (counted from 0) is given server k mod total().
C14_RoundRobin ==
    /\ \A j \in 1..(Len(picks) - total + 1) :
         /\ {picks[j + i] : i \in 0..(total - 1)} = 1..total
         /\ \A i1, i2 \in 0..(total - 1) :
              picks[j + i1] = picks[j + i2] => i1 = i2
    /\ EveryServerResolves =>
         \A k \in 1..Len(conns) : conns[k].server = ((k - 1) % total) + 1

C14_Witness ==
    /\ total = 3
    /\ EveryServerResolves
    /\ Len(conns) = 4
    /\ conns[4].server = 1
    /\ conns[3].server = 3

C16_FragDropped ==
    [][\A i \in 1..Len(workers) :
         (/\ workers[i].kind = "request"
          /\ workers[i].pc = "start"
          /\ workers[i].content[2].frag # 0
          /\ workers'[i] # workers[i]) =>
            /\ last_ended'.cause = i
            /\ last_ended'.how = "dropped"
            /\ last_ended'.sent = <<>>
            /\ client_map' = client_map
            /\ bindings' = bindings
      ]_vars

C16_Witness ==
    /\ last_ended.how = "dropped"
    /\ last_ended.by.content[2].frag = 1
    /\ last_ended.sent = <<>>
    /\ client_map # <<>>

\* C17: the datagram sent to the server for a FRAG=0 client datagram is the
\* IV (block_size bytes) followed by the encryption of exactly the address
\* bytes and the payload: the plaintext starts with the address and holds
\* neither the RSV bytes nor the FRAG byte.
C17_RequestPlaintext ==
    (last_ended.how = "done" /\ last_ended.by.kind = "request") =>
      LET w == last_ended.by
          d == last_ended.sent[1].payload
      IN /\ Len(last_ended.sent) = 1
         /\ d[1] = [type |-> "iv", len |-> block_size(servers[w.server].method)]
         /\ d[2].type = "ciphertext"
         /\ d[2].of[1].type = "address"
         /\ \A k \in 1..Len(d[2].of) : d[2].of[k].type \notin {"rsv", "frag"}
         /\ d[2].of = SubSeq(w.content, 3, Len(w.content))

\* C18: a thread for a datagram from a server endpoint sends nothing when
\* the lookup of the decrypted address misses (or when it panics), and on a
\* hit sends exactly one datagram, RSV 0, FRAG 0, the address and the rest
\* of the plaintext, to the client recorded for that address; the plaintext
\* is what follows the first block_size bytes, the IV.
C18_ResponseForwarded ==
    last_ended.by.kind = "response" =>
      LET w == last_ended.by
          method == servers[server_set[w.from]].method
      IN /\ last_ended.how \in {"missed", "panicked", "done"}
         /\ last_ended.how \in {"missed", "panicked"} => last_ended.sent = <<>>
         /\ last_ended.how \in {"missed", "done"} =>
              /\ Len(w.content) = 2
              /\ w.content[1] = [type |-> "iv", len |-> block_size(method)]
              /\ w.content[2].type = "ciphertext"
              /\ w.content[2].of[1].type = "address"
         /\ last_ended.how = "done" =>
              LET plain == w.content[2].of IN
              /\ Len(last_ended.sent) = 1
              /\ last_ended.sent[1].payload =
                   <<[type |-> "rsv", len |-> 2], [type |-> "frag", frag |-> 0],
                     plain[1]>> \o Tail(plain)
              /\ last_ended.sent[1].to = w.bound
              /\ w.bound \in UdpClients

C18_Witness ==
    /\ last_ended.by.kind = "response"
    /\ last_ended.how = "done"
    /\ Len(last_ended.sent) = 1
    /\ last_ended.sent[1].to = <<"ipC2", 5001>>

Payloads(fields) ==
    LET IsPayload(f) == f.type = "payload" IN SelectSeq(fields, IsPayload)

\* C20: the thread of a received datagram sends at most one datagram, to a
\* server endpoint for a datagram from a non-server source and to a client
\* for one from a server, and what it sends carries the payload of its own
\* datagram, whole and alone.
C20_OneDatagramOut ==
    last_ended.how # "none" =>
      LET w == last_ended.by IN
      /\ Len(last_ended.sent) <= 1
      /\ (w.kind = "request" /\ last_ended.sent # <<>>) =>
           /\ w.from \notin DOMAIN server_set
           /\ last_ended.sent[1].to \in DOMAIN server_set
           /\ Payloads(last_ended.sent[1].payload[2].of)
                = <<[type |-> "payload", id |-> last_ended.cause]>>
           /\ Payloads(w.content) = Payloads(last_ended.sent[1].payload[2].of)
      /\ (w.kind = "response" /\ last_ended.sent # <<>>) =>
           /\ w.from \in DOMAIN server_set
           /\ last_ended.sent[1].to \in UdpClients
           /\ Payloads(last_ended.sent[1].payload)
                = <<[type |-> "payload", id |-> last_ended.cause]>>
           /\ Payloads(w.content[2].of) = Payloads(last_ended.sent[1].payload)

C20_Witness ==
    /\ last_ended.by.kind = "request"
    /\ last_ended.how = "done"
    /\ Len(last_ended.sent) = 1
    /\ last_ended.cause = 2

\* The i-th digest of the key derivation: D(1) = MD5(P) and
\* D(i) = MD5(D(i-1) || P).
RECURSIVE D(_, _)
D(i, P) == IF i = 1 THEN Md5(P) ELSE Md5(D(i - 1, P) \o P)

RECURSIVE Digests(_, _)
\* D(1) || ... || D(n).
Digests(n, P) == IF n = 0 THEN <<>> ELSE Digests(n - 1, P) \o D(n, P)

\* The derivation that stops as soon as key_size(M) bytes are there.
EvpBytesToKey(M, P) ==
    SubSeq(Digests((key_size(M) + digest_len - 1) \div digest_len, P), 1, key_size(M))

\* C21: bytes_to_key(M, P) is the first key_size(M) bytes of D1 || D2 || ...
\* with D1 = MD5(P) and Di = MD5(D(i-1) || P): it has exactly key_size(M)
\* bytes and is the key of the derivation that stops at key_size(M) bytes,
\* although the code computes digests for key_size(M) + iv_size(M) bytes.
C21_BytesToKey ==
    ct_pc \in {"keyed", "ready", "finalized"} =>
        /\ Len(ct_key) = key_size(ct_method)
        /\ ct_key = EvpBytesToKey(ct_method, ct_password)

\* A 24-byte key was derived from a non-empty password: two digests hold the
\* key and the code computed a third.
C21_Witness ==
    /\ ct_pc = "keyed"
    /\ ct_method = "Aes192Cfb"
    /\ ct_password # <<>>
    /\ Len(ct_key) = 24
    /\ Len(Md5Chain(<<>>, ct_password, key_size(ct_method) + block_size(ct_method))) = 3

C23_FinalizedBeforeDestroyed ==
    /\ encryptor # "dropped"
    /\ decryptor # "dropped"

\* The hostname of the i-th server tried by the latest accept.
TriedHost(i) == servers[last_accept'.tried[i].server].addr

\* C24: the resolver cache is filled lazily and never evicted: an entry is
\* never removed or changed, an entry is inserted only by a lookup that
\* returned a non-empty list, no lookup is made for a hostname that is
\* cached, and the address the worker is given is the first IP of the cached
\* list with the port of the server entry picked.
C24_ResolverCache ==
    [][/\ \A h \in DOMAIN cached_proxy :
            h \in DOMAIN cached_proxy' /\ cached_proxy'[h] = cached_proxy[h]
       /\ \A h \in DOMAIN cached_proxy' \ DOMAIN cached_proxy :
            /\ cached_proxy'[h] # <<>>
            /\ \E i \in 1..Len(last_accept'.tried) :
                 /\ TriedHost(i) = h
                 /\ last_accept'.tried[i].outcome = "resolved"
       /\ accepted' # accepted =>
            /\ \A i \in 1..Len(last_accept'.tried) :
                 (last_accept'.tried[i].outcome = "cached")
                     <=> (TriedHost(i) \in DOMAIN cached_proxy)
            /\ last_accept'.spawned = 1 =>
                 LET c == conns'[Len(conns')]
                 IN c.server_addr = <<Head(cached_proxy'[servers[c.server].addr]),
                                      servers[c.server].port>>
      ]_vars

\* The third server shares the hostname of the first: a connection was given
\* the first of the two addresses cached for that hostname, with the third
\* server's own port, without a lookup.
C24_Witness ==
    /\ total = 3
    /\ accepted >= 2
    /\ last_accept.spawned = 1
    /\ last_accept.tried[Len(last_accept.tried)] = [server |-> 3, outcome |-> "cached"]
    /\ cached_proxy["h1"] = <<"ipB", "ipA">>
    /\ conns[Len(conns)].server_addr = <<"ipB", 8389>>

\* The request whose handling the latest receive started or gave up: the
\* thread spawned for it, or the request dropped for want of an endpoint.
ReceivedRequest ==
    IF workers'[Len(workers')].kind = "request"
    THEN workers'[Len(workers')]
    ELSE IF last_ended'.how = "no_endpoint" /\ last_ended'.cause = received'
    THEN last_ended'.by
    ELSE NoWorker

\* C25 as stated: a request's FRAG check, header parse and client_map record
\* come before the balancer's pick and the endpoint lookup, so that a request
\* with FRAG other than zero does not advance the balancer and a FRAG=0
\* request whose picked server has no resolved endpoint is dropped with its
\* binding recorded.
C25_RecordThenPick ==
    [][(received' = received + 1 /\ ReceivedRequest.kind = "request") =>
         LET w == ReceivedRequest
             request == UdpAssociateHeaderRead(w.content)
         IN /\ FragDropped(w.content) => udp_rr_index' = udp_rr_index
            /\ (/\ ~FragDropped(w.content)
                /\ request.ok
                /\ last_ended'.how = "no_endpoint"
                /\ last_ended'.cause = received') =>
                  /\ LruHas(client_map', request.address)
                  /\ LruValue(client_map', request.address) = w.from
      ]_vars

\* C25 amended: the balancer's pick and the endpoint lookup come first, in
\* the receive loop, and the FRAG check, the header parse and the client_map
\* record follow in the request's thread: every request of at least 4 bytes
\* advances the balancer, whatever its FRAG byte, the receive loop records
\* nothing, and a request whose picked server has no resolved endpoint is
\* dropped with no thread and no binding recorded.
C25_PickThenRecord ==
    [][(received' = received + 1 /\ ReceivedRequest.kind = "request") =>
         LET w == ReceivedRequest
             p == pick_server(udp_rr_index)
         IN /\ udp_rr_index' = p.index
            /\ w.server = p.server
            /\ client_map' = client_map
            /\ bindings' = bindings
            /\ (servers[p.server].addr \in DOMAIN server_addr) <=>
                  (workers'[Len(workers')].kind = "request")
            /\ (servers[p.server].addr \notin DOMAIN server_addr) =>
                  /\ workers'[Len(workers')] = NoWorker
                  /\ last_ended'.sent = <<>>
      ]_vars

\* A well-formed FRAG=0 request was dropped because the server picked for it
\* has no resolved endpoint: the balancer has advanced and the request's
\* destination is not bound.
C25_Witness ==
    /\ last_ended.how = "no_endpoint"
    /\ ~FragDropped(last_ended.by.content)
    /\ UdpAssociateHeaderRead(last_ended.by.content).ok
    /\ last_ended.cause = 1
    /\ total = 2
    /\ udp_rr_index = 1
    /\ ~LruHas(client_map, UdpAssociateHeaderRead(last_ended.by.content).address)

\* A call of fill_buf or read was made in the step.
ReaderCalled ==
    /\ dr_calls' = dr_calls + 1
    /\ dr_last'.call \in {"fill_buf", "read"}

\* C26: an error of the cipher comes out as an IoError of kind OtherIoError
\* with the cipher error's desc and detail; when update fails in write,
\* nothing is written to the underlying writer; when update or finalize
\* fails in fill_buf, buffer and pos stay as they were.
C26_CipherErrorSurfaced ==
    [][/\ (dr_last'.call = "write" /\ dr_last'.cipher = "err") =>
            /\ dr_last'.result = [kind |-> "OtherIoError",
                                  desc |-> CipherError("update").desc,
                                  detail |-> CipherError("update").detail]
            /\ pipe' = pipe
       /\ (ReaderCalled /\ dr_last'.cipher = "err") =>
            /\ dr_last'.result.kind = "OtherIoError"
            /\ \E call \in {"update", "finalize"} :
                 /\ dr_last'.result.desc = CipherError(call).desc
                 /\ dr_last'.result.detail = CipherError(call).detail
            /\ dr_buffer' = dr_buffer
            /\ dr_pos' = dr_pos
            /\ dr_out' = dr_out
            /\ dr_state' = "live"
      ]_vars

\* The cipher failed in a read on a reader whose buffer had been read to its
\* end: the caller got OtherIoError and the buffer is still there.
C26_Witness ==
    /\ dr_last.call = "read"
    /\ dr_last.cipher = "err"
    /\ dr_last.result.kind = "OtherIoError"
    /\ dr_pos = Len(dr_buffer)
    /\ dr_pos > 0
    /\ dr_out # <<>>

\* C27: a DecryptedReader keeps pos <= buffer.len() whatever fill_buf, read
\* and consume (of at most what is available) calls are made and whatever
\* the reader and the cipher return, so that neither the assertion of
\* consume nor the slice of fill_buf fails.
C27_PosWithinBuffer ==
    /\ dr_pos <= Len(dr_buffer)
    /\ dr_state # "panicked"

\* C28: once the underlying reader returned EndOfFile and the tail of
\* finalize was delivered, every later read or fill_buf for which the reader
\* still returns EndOfFile returns the EndOfFile error: it does not panic
\* and does not call the cipher.
C28_EofSticky ==
    [][(/\ dr_sent_final
        /\ dr_pos >= Len(dr_buffer)
        /\ ReaderCalled
        /\ dr_last'.reader \in {"none", "EndOfFile"}) =>
            /\ dr_last'.result.kind = "EndOfFile"
            /\ dr_state' = "live"
            /\ dr_cipher' = dr_cipher
      ]_vars

\* s is the beginning of t.
IsPrefix(s, t) == Len(s) <= Len(t) /\ s = SubSeq(t, 1, Len(s))

\* C29: with the same method, key and IV at both ends and no failure, the
\* bytes the reader delivers are the bytes written, in order, whatever the
\* plaintext's split in writes, the sizes of the underlying reads and the
\* sizes of the buffers read into; at EndOfFile all of them were delivered.
C29_ChunkingIndependent ==
    ~dr_irregular =>
        /\ IsPrefix(dr_out, pw_plain)
        /\ dr_eof => dr_out = pw_plain

\* Three bytes written in at least two writes through a stream cipher were
\* delivered by one-byte and two-byte reads up to EndOfFile.
C29_Witness ==
    /\ ~dr_irregular
    /\ dr_eof
    /\ dr_cipher.t = "BfCfb"
    /\ Len(pw_plain) = 3
    /\ dr_out = pw_plain
    /\ pw_plain[1] # pw_plain[2]
    /\ dr_calls = 3

\* What the encryptor returned for the inputs of its first n update calls.
EncOutputs(n) == [k \in 1..n |-> encrypt_update(enc_input[k])]

\* C30: in a CONNECT session what is written to S after the IV is output of
\* the encryptor, in the order of its inputs, and what is written to C after
\* the Succeeded reply is output of the decryptor: no plaintext of C is on S's
\* wire, and neither the remote's IV nor its ciphertext is on C's wire.
C30_OnlyCipherOutputs ==
    header.command = "TcpConnect" =>
      /\ remote_wire # <<>> => remote_wire[1] = gen_init_vec(encrypt_method)
      /\ Len(RemoteBytes) - 1 <= Len(enc_input)
      /\ Len(RemoteBytes) >= 1 =>
           SubSeq(RemoteBytes, 2, Len(RemoteBytes)) = EncOutputs(Len(RemoteBytes) - 1)
      /\ \A i \in 1..Len(remote_wire) :
           remote_wire[i].type \notin {"data", "address"}
      /\ \A i \in 1..Len(local_wire) :
           /\ local_wire[i].type \notin {"iv", "ciphertext", "final"}
           /\ i > 2 =>
                /\ local_wire[2] = TcpResponseHeader("Succeeded", SockName)
                /\ local_wire[i].type = "data"
                /\ decryptor # "none"

\* Payload went both ways under a cipher with an IV: S got the IV and two
\* ciphertexts, C got the reply and a decrypted chunk.
C30_Witness ==
    /\ header.command = "TcpConnect"
    /\ block_size(encrypt_method) > 0
    /\ Len(RemoteBytes) = 3
    /\ RemoteBytes[3] = encrypt_update(DataBytes("d1"))
    /\ Len(local_wire) = 3
    /\ local_wire[3] = DataBytes("d2")
    /\ decryptor = "live"

\* The endpoints under which the server entry k can be resolved when the
\* relay starts: the first address of a lookup of its hostname, and its port.
OwnEndpoints(k) ==
    {<<Head(a.addrs), servers[k].port>> :
        a \in {x \in StartupAnswers : x.ok /\ x.addrs # <<>>}}

\* C31: a request datagram that handle_request sent opens with an IV of the
\* method of the server entry whose configuration encrypted it, and was sent
\* to the resolved endpoint of that same entry, its address and its port,
\* also when two entries of the list share a hostname.
C31_SentToOwnServer ==
    (/\ last_ended.how = "done"
     /\ last_ended.by.kind = "request") =>
        /\ last_ended.sent[1].to \in OwnEndpoints(last_ended.by.server)
        /\ last_ended.sent[1].payload[1] =
             gen_init_vec(servers[last_ended.by.server].method)

\* The hostname of some configured server is in the resolver cache.
SomeServerCached == \E k \in 1..total : servers[k].addr \in DOMAIN cached_proxy

\* C32: an accept made while the resolver cache holds the hostname of a
\* configured server does not end run() with "All proxy servers are failed",
\* whatever get_host_addresses returns: after at most total() picks, all but
\* the last of them failed lookups, the connection is dispatched to a server
\* that is cached or has just resolved, and to a cached one when every
\* lookup of the accept failed.
C32_CachedServerReached ==
    [][(SomeServerCached /\ accepted' = accepted + 1) =>
         LET t == last_accept'.tried
         IN /\ relay_state' = "accepting"
            /\ last_accept'.spawned = 1
            /\ Len(conns') = Len(conns) + 1
            /\ Len(t) \in 1..total
            /\ \A i \in 1..(Len(t) - 1) : Failed(t[i].outcome)
            /\ t[Len(t)].outcome \in {"cached", "resolved"}
            /\ conns'[Len(conns')].server = t[Len(t)].server
            /\ t[Len(t)].outcome = "cached" <=>
                 servers[t[Len(t)].server].addr \in DOMAIN cached_proxy
      ]_vars

\* With three servers and only "h2" cached, an accept that starts at the
\* third server found the lookups of both entries of "h1" failing and
\* dispatched the connection to the cached second server.
C32_Witness ==
    /\ total = 3
    /\ DOMAIN cached_proxy = {"h2"}
    /\ last_accept.start = 2
    /\ last_accept.tried = <<[server |-> 3, outcome |-> "error"],
                             [server |-> 1, outcome |-> "empty"],
                             [server |-> 2, outcome |-> "cached"]>>
    /\ relay_state = "accepting"
    /\ conns[Len(conns)].server = 2

\* C35: every list in the resolver cache has at least one address, and the
\* accept loop never failed to take the first address of the list it chose:
\* every connection was dispatched to that first address and the server's
\* port.
C35_CachedListsNonEmpty ==
    /\ \A h \in DOMAIN cached_proxy : cached_proxy[h] # <<>>
    /\ relay_state # "unwrap_failed"
    /\ \A i \in 1..Len(conns) :
         LET host == servers[conns[i].server].addr
         IN /\ host \in DOMAIN cached_proxy
            /\ conns[i].server_addr =
                 <<Head(cached_proxy[host]), servers[conns[i].server].port>>

\* The resolver returned an empty list for "h1" at the first accept, which
\* was dispatched to "h2"; "h1" then resolved and was cached, and the latest
\* accept took the first address of its cached list.
C35_Witness ==
    /\ total >= 2
    /\ Len(conns) >= 3
    /\ conns[1].server = 2
    /\ DOMAIN cached_proxy = {"h1", "h2"}
    /\ last_accept.tried = <<[server |-> 1, outcome |-> "cached"]>>
    /\ Len(cached_proxy["h1"]) = 2
    /\ conns[Len(conns)].server_addr = <<"ipB", 8388>>

\* The thread whose get ran in the step, or 0.
GetBy ==
    IF /\ mutex.holder # 0
       /\ mutex'.ops = mutex.ops + 1
       /\ workers[mutex.holder].kind = "response"
    THEN mutex.holder
    ELSE 0

\* Some client sent a FRAG=0 request for the destination from the address.
Asked(dst, src) == \E r \in asked : r.dst = dst /\ r.src = src

\* C33: the get of a response thread for dst finds the source that the
\* latest insert for dst, in the order the threads held the mutex, recorded;
\* the reply is sent to the address the get found and nowhere else, which is
\* the address of a client that sent a FRAG=0 request for dst; and
\* client_map has at most one entry per destination, holding the source
\* recorded last.
C33_ReplyToLastBinding ==
    [][/\ GetBy # 0 =>
            LET dst == ThreadAddress(workers[GetBy]).address
                found == workers'[GetBy].bound
            IN found # NoEndpoint =>
                 /\ dst \in DOMAIN bindings
                 /\ found = bindings[dst].src
                 /\ Asked(dst, found)
       /\ (last_ended' # last_ended /\ last_ended'.by.kind = "response") =>
            LET dst == ThreadAddress(last_ended'.by).address
            IN /\ Len(last_ended'.sent) <= 1
               /\ last_ended'.sent # <<>> =>
                    /\ last_ended'.how = "done"
                    /\ last_ended'.sent[1].to = last_ended'.by.bound
                    /\ Asked(dst, last_ended'.sent[1].to)
               /\ last_ended'.by.bound = NoEndpoint => last_ended'.sent = <<>>
       /\ \A i, j \in 1..Len(client_map') :
            client_map'[i].key = client_map'[j].key => i = j
       /\ \A i \in 1..Len(client_map') :
            /\ client_map'[i].key \in DOMAIN bindings'
            /\ client_map'[i].value = bindings'[client_map'[i].key].src
      ]_vars

\* Both clients asked for "dst1", the first client's request arriving first;
\* its thread got the mutex after the thread of the second client's request,
\* so its binding was written last and the reply for "dst1" went to it.
C33_Witness ==
    /\ [dst |-> "dst1", src |-> <<"ipC1", 5000>>, n |-> 1] \in asked
    /\ [dst |-> "dst1", src |-> <<"ipC2", 5001>>, n |-> 2] \in asked
    /\ inserted = {1, 2}
    /\ bindings["dst1"].src = <<"ipC1", 5000>>
    /\ last_ended.how = "done"
    /\ last_ended.by.kind = "response"
    /\ last_ended.cause = 3
    /\ last_ended.sent[1].to = <<"ipC1", 5000>>

\* The thread that ended in the step, or 0.
EndedThread ==
    IF last_ended' # last_ended /\ last_ended'.how # "no_endpoint"
    THEN last_ended'.cause
    ELSE 0

\* C34: the datagram of a request is sent after the request's insert into
\* client_map; a thread gives the mutex back after exactly one insert or
\* get; and the thread that sends on the socket, or ends, does not hold the
\* mutex.
C34_MutexDiscipline ==
    [][/\ (EndedThread # 0 /\ last_ended'.sent # <<>>
              /\ last_ended'.by.kind = "request") =>
            EndedThread \in inserted
       /\ mutex'.ops <= 1
       /\ (mutex.holder # 0 /\ mutex'.holder # mutex.holder) =>
            /\ mutex.ops = 1
            /\ mutex'.holder = 0
       /\ EndedThread # 0 => mutex.holder # EndedThread
       /\ \A i \in 1..Len(workers') :
            workers'[i].pc = "send" => mutex'.holder # i
      ]_vars

\* A request's datagram has gone to the server after its insert, while a
\* second thread holds the mutex with its one operation done and a third
\* is about to ask for it.
C34_Witness ==
    /\ last_ended.how = "done"
    /\ last_ended.by.kind = "request"
    /\ last_ended.cause = 1
    /\ 1 \in inserted
    /\ mutex = [holder |-> 2, ops |-> 1]
    /\ workers[2].pc = "unlock"
    /\ Len(workers) = 3
    /\ workers[3].pc = "lock"

====
